---------------------------- MODULE Spec2Model ----------------------------
(***************************************************************************)
(* A model of tarko-agent-ui-python: HTML environment injection            *)
(* (inject_env_variables), static path resolution (get_static_path) and    *)
(* asset acquisition (download_static_assets / download_npm_package).      *)
(*                                                                         *)
(* Text is modelled as a sequence of one-character strings.  The fixed     *)
(* pieces of the injected script template are single opaque elements, so   *)
(* that a one-character "<" or ">" inside the injected block can only come *)
(* from a serialized caller value.                                         *)
(***************************************************************************)
EXTENDS Integers, Sequences, FiniteSets, TLC

VARIABLES
    html,            \* inject: the html argument of the call
    base_url,        \* inject: the base_url argument of the call
    ui_config,       \* inject: the ui_config argument of the call
    result,          \* inject: what the call returned or raised
    registry,        \* the npm registry's metadata of @tarko/agent-ui-builder
    static_dirs,     \* each package's static directory on disk
    static_version,  \* tarko_agent_ui/_static_version.py: the recorded version
    build,           \* the last run of scripts/build_assets.py
    gsp,             \* the last get_static_path call: what it returned or raised
    acq,             \* the tarko_web_ui.download_static_assets call in progress
    sbx,             \* the last acquisition into agent_sandbox/static
    loaded,          \* tarko_agent_ui's module-level version constants
    version_info,    \* what the last get_static_version call returned
    ui,              \* the get_agent_ui_html call in progress
    app,             \* the application examples/fastapi_server.py created
    web_app,         \* the application tarko_web_ui/server.py created
    response,        \* the last HTTP response of either application
    release          \* the run of scripts/auto_release.py

injectVars == <<html, base_url, ui_config, result>>
fsVars == <<registry, static_dirs, static_version, build, gsp, acq>>
callVars == <<sbx, loaded, version_info, ui>>
toolVars == <<app, web_app, response, release>>
vars == <<injectVars, fsVars, callVars, toolVars>>

(***************************************************************************)
(* Bounds of the model.                                                    *)
(***************************************************************************)
MaxFrags == 3
MaxStrLen == 2

(***************************************************************************)
(* Characters.                                                             *)
(***************************************************************************)
LT == "<"
GT == ">"
QUOTE == "\""
BSL == "\\"
NL == "\n"
SP == " "

ToLower(c) ==
    CASE c = "H" -> "h"
      [] c = "E" -> "e"
      [] c = "A" -> "a"
      [] c = "D" -> "d"
      [] OTHER -> c

RECURSIVE Concat(_)
Concat(seqs) ==
    IF seqs = <<>> THEN <<>> ELSE Head(seqs) \o Concat(Tail(seqs))

(***************************************************************************)
(* JSON values: [kind, val].  An object is a sequence of <<key, value>>    *)
(* pairs in insertion order, keys being texts.                             *)
(***************************************************************************)
JStr(s) == [kind |-> "str", val |-> s]
JNum(n) == [kind |-> "num", val |-> n]
JBool(b) == [kind |-> "bool", val |-> b]
JNull == [kind |-> "null", val |-> 0]
JArr(items) == [kind |-> "arr", val |-> items]
JObj(members) == [kind |-> "obj", val |-> members]
\* Python's None passed (or defaulted) as ui_config.
NoConfig == [kind |-> "none", val |-> 0]

(***************************************************************************)
(* json.dumps: serialization.                                              *)
(***************************************************************************)
\* A faulty variant: the backslash is copied instead of being escaped.
EscapeCharNoBackslash(c) ==
    CASE c = QUOTE -> <<BSL, QUOTE>>
      [] c = NL -> <<BSL, "n">>
      [] OTHER -> <<c>>

\* The escape json.dumps applies to one character of a string: quotes,
\* backslashes and newlines are escaped, "<" and ">" are copied.
EscapeChar(c) ==
    CASE c = QUOTE -> <<BSL, QUOTE>>
      [] c = BSL -> <<BSL, BSL>>
      [] c = NL -> <<BSL, "n">>
      [] OTHER -> <<c>>

DumpsString(s) ==
    <<QUOTE>> \o Concat([i \in 1..Len(s) |-> EscapeChar(s[i])]) \o <<QUOTE>>

DigitChar(d) == <<"0", "1", "2", "3", "4", "5", "6", "7", "8", "9">>[d + 1]

RECURSIVE Digits(_)
Digits(n) ==
    IF n < 10 THEN <<DigitChar(n)>>
    ELSE Digits(n \div 10) \o <<DigitChar(n % 10)>>

RECURSIVE Dumps(_)
RECURSIVE DumpsItems(_)
RECURSIVE DumpsMembers(_)

\* Array items, separated by ", ".
DumpsItems(items) ==
    IF items = <<>> THEN <<>>
    ELSE Dumps(Head(items))
         \o (IF Tail(items) = <<>> THEN <<>> ELSE <<",", SP>>)
         \o DumpsItems(Tail(items))

\* Object members "key": value, separated by ", ".
DumpsMembers(members) ==
    IF members = <<>> THEN <<>>
    ELSE DumpsString(Head(members)[1]) \o <<":", SP>> \o Dumps(Head(members)[2])
         \o (IF Tail(members) = <<>> THEN <<>> ELSE <<",", SP>>)
         \o DumpsMembers(Tail(members))

Dumps(v) ==
    CASE v.kind = "str" -> DumpsString(v.val)
      [] v.kind = "num" -> Digits(v.val)
      [] v.kind = "bool" ->
            IF v.val THEN <<"t", "r", "u", "e">> ELSE <<"f", "a", "l", "s", "e">>
      [] v.kind = "arr" -> <<"[">> \o DumpsItems(v.val) \o <<"]">>
      [] v.kind = "obj" -> <<"{">> \o DumpsMembers(v.val) \o <<"}">>
      [] OTHER -> <<"n", "u", "l", "l">>

(***************************************************************************)
(* A JSON parser (what json.loads / the browser's parser does with the     *)
(* embedded literal): recursive descent over the text, from index i.       *)
(* A parse gives [ok, val, next]: next is the index after the value.       *)
(***************************************************************************)
ParseFail == [ok |-> FALSE, val |-> JNull, next |-> 0]
ParseOk(v, n) == [ok |-> TRUE, val |-> v, next |-> n]

IsDigit(c) == c \in {"0", "1", "2", "3", "4", "5", "6", "7", "8", "9"}
DigitVal(c) == CHOOSE d \in 0..9 : DigitChar(d) = c

HasLiteral(s, i, lit) ==
    /\ i + Len(lit) - 1 <= Len(s)
    /\ \A k \in 1..Len(lit) : s[i + k - 1] = lit[k]

RECURSIVE SkipWs(_, _)
SkipWs(s, i) ==
    IF i <= Len(s) /\ s[i] \in {SP, NL} THEN SkipWs(s, i + 1) ELSE i

\* The body of a string literal; s[i] is the character after the opening
\* quote.  A raw newline inside a literal is a parse error.
RECURSIVE ParseString(_, _, _)
ParseString(s, i, acc) ==
    IF i > Len(s) THEN ParseFail
    ELSE IF s[i] = QUOTE THEN ParseOk(acc, i + 1)
    ELSE IF s[i] = NL THEN ParseFail
    ELSE IF s[i] = BSL THEN
        IF i + 1 > Len(s) THEN ParseFail
        ELSE IF s[i + 1] = QUOTE THEN ParseString(s, i + 2, Append(acc, QUOTE))
        ELSE IF s[i + 1] = BSL THEN ParseString(s, i + 2, Append(acc, BSL))
        ELSE IF s[i + 1] = "/" THEN ParseString(s, i + 2, Append(acc, "/"))
        ELSE IF s[i + 1] = "n" THEN ParseString(s, i + 2, Append(acc, NL))
        ELSE ParseFail
    ELSE ParseString(s, i + 1, Append(acc, s[i]))

RECURSIVE ParseNumber(_, _, _)
ParseNumber(s, i, acc) ==
    IF i <= Len(s) /\ IsDigit(s[i])
    THEN ParseNumber(s, i + 1, acc * 10 + DigitVal(s[i]))
    ELSE ParseOk(JNum(acc), i)

RECURSIVE ParseValue(_, _)
RECURSIVE ParseItems(_, _, _)
RECURSIVE ParseMembers(_, _, _)

\* Array items after "[" or ","; acc holds the items parsed so far.
ParseItems(s, i, acc) ==
    LET v == ParseValue(s, i)
        d == SkipWs(s, v.next)
    IN  IF ~v.ok \/ d > Len(s) THEN ParseFail
        ELSE IF s[d] = "," THEN ParseItems(s, d + 1, Append(acc, v.val))
        ELSE IF s[d] = "]" THEN ParseOk(JArr(Append(acc, v.val)), d + 1)
        ELSE ParseFail

\* Object members after "{" or ","; acc holds the members parsed so far.
ParseMembers(s, i, acc) ==
    LET k == SkipWs(s, i)
        key == IF k <= Len(s) /\ s[k] = QUOTE
               THEN ParseString(s, k + 1, <<>>) ELSE ParseFail
        c == SkipWs(s, key.next)
        v == IF key.ok /\ c <= Len(s) /\ s[c] = ":"
             THEN ParseValue(s, c + 1) ELSE ParseFail
        d == SkipWs(s, v.next)
    IN  IF ~v.ok \/ d > Len(s) THEN ParseFail
        ELSE IF s[d] = ","
             THEN ParseMembers(s, d + 1, Append(acc, <<key.val, v.val>>))
        ELSE IF s[d] = "}"
             THEN ParseOk(JObj(Append(acc, <<key.val, v.val>>)), d + 1)
        ELSE ParseFail

ParseValue(s, i) ==
    LET j == SkipWs(s, i) IN
    IF j > Len(s) THEN ParseFail
    ELSE IF s[j] = QUOTE THEN
        LET r == ParseString(s, j + 1, <<>>)
        IN  IF r.ok THEN ParseOk(JStr(r.val), r.next) ELSE ParseFail
    ELSE IF s[j] = "{" THEN
        LET k == SkipWs(s, j + 1)
        IN  IF k <= Len(s) /\ s[k] = "}" THEN ParseOk(JObj(<<>>), k + 1)
            ELSE ParseMembers(s, j + 1, <<>>)
    ELSE IF s[j] = "[" THEN
        LET k == SkipWs(s, j + 1)
        IN  IF k <= Len(s) /\ s[k] = "]" THEN ParseOk(JArr(<<>>), k + 1)
            ELSE ParseItems(s, j + 1, <<>>)
    ELSE IF IsDigit(s[j]) THEN ParseNumber(s, j, 0)
    ELSE IF HasLiteral(s, j, <<"t", "r", "u", "e">>) THEN ParseOk(JBool(TRUE), j + 4)
    ELSE IF HasLiteral(s, j, <<"f", "a", "l", "s", "e">>) THEN ParseOk(JBool(FALSE), j + 5)
    ELSE IF HasLiteral(s, j, <<"n", "u", "l", "l">>) THEN ParseOk(JNull, j + 4)
    ELSE ParseFail

\* The value a whole text parses to, or ParseFail.val with ok = FALSE.
Loads(s) ==
    LET r == ParseValue(s, 1)
    IN  IF r.ok /\ SkipWs(s, r.next) = Len(s) + 1 THEN r ELSE ParseFail

(***************************************************************************)
(* inject_env_variables(html_content, base_url, ui_config).                *)
(***************************************************************************)
\* The fixed pieces of the script template.
SCRIPT_OPEN == "<script>"
ASSIGN_BASE_URL == "window.AGENT_BASE_URL = "
ASSIGN_CONFIG == "window.AGENT_WEB_UI_CONFIG = "
STMT_END == ";\n"
TRACE == "console.log(\"Agent: Using API baseURL:\", window.AGENT_BASE_URL);"
SCRIPT_CLOSE == "</script>"

HEAD_LITERAL == <<"<", "h", "e", "a", "d">>

\* A faulty variant: the literal is matched case-sensitively.
HeadLiteralAtCaseSensitive(h, i) ==
    /\ i + Len(HEAD_LITERAL) - 1 <= Len(h)
    /\ \A k \in 1..Len(HEAD_LITERAL) : h[i + k - 1] = HEAD_LITERAL[k]

\* The literal "<head" at index i of h, compared case-insensitively.
HeadLiteralAt(h, i) ==
    /\ i + Len(HEAD_LITERAL) - 1 <= Len(h)
    /\ \A k \in 1..Len(HEAD_LITERAL) : ToLower(h[i + k - 1]) = HEAD_LITERAL[k]

\* The index of the first ">" of h at or after i; 0 when there is none.
RECURSIVE FindGT(_, _)
FindGT(h, i) ==
    IF i > Len(h) THEN 0
    ELSE IF h[i] = GT THEN i
    ELSE FindGT(h, i + 1)

\* The search for the pattern "<head" [^>]* ">": the start of the leftmost
\* match at or after i, 0 when nothing matches.
RECURSIVE HeadSearch(_, _)
HeadSearch(h, i) ==
    IF i > Len(h) THEN 0
    ELSE IF HeadLiteralAt(h, i) /\ FindGT(h, i + Len(HEAD_LITERAL)) > 0 THEN i
    ELSE HeadSearch(h, i + 1)

\* The index of the match's last character, its closing ">".
HeadEnd(h, start) == FindGT(h, start + Len(HEAD_LITERAL))

\* A faulty variant: an absent ui_config is serialized as it is (null).
ScriptBlockNullConfig(b, c) ==
    <<SCRIPT_OPEN, ASSIGN_BASE_URL>> \o DumpsString(b) \o <<STMT_END, ASSIGN_CONFIG>>
    \o Dumps(c) \o <<STMT_END, TRACE, SCRIPT_CLOSE>>

\* The script block: both globals assigned, then the trace statement.
ScriptBlock(b, c) ==
    <<SCRIPT_OPEN, ASSIGN_BASE_URL>> \o DumpsString(b) \o <<STMT_END, ASSIGN_CONFIG>>
    \o Dumps(IF c = NoConfig THEN JObj(<<>>) ELSE c)
    \o <<STMT_END, TRACE, SCRIPT_CLOSE>>

Returned(text) == [kind |-> "ok", html |-> text, exc |-> "", msg |-> ""]
Raised(e, m) == [kind |-> "error", html |-> <<>>, exc |-> e, msg |-> m]
NoResult == [kind |-> "none", html |-> <<>>, exc |-> "", msg |-> ""]

\* A faulty variant: the block is spliced in before the head tag.
InjectBeforeHeadTag(h, b, c) ==
    LET start == HeadSearch(h, 1) IN
    IF start = 0
    THEN Raised("ValueError", "HTML content must contain a valid <head> section")
    ELSE Returned(SubSeq(h, 1, start - 1) \o ScriptBlock(b, c)
                  \o SubSeq(h, start, Len(h)))

\* A faulty variant: html without a head tag is returned as it is.
InjectLenient(h, b, c) ==
    LET start == HeadSearch(h, 1) IN
    IF start = 0
    THEN Returned(h)
    ELSE Returned(SubSeq(h, 1, HeadEnd(h, start)) \o ScriptBlock(b, c)
                  \o SubSeq(h, HeadEnd(h, start) + 1, Len(h)))

inject_env_variables(h, b, c) ==
    LET start == HeadSearch(h, 1) IN
    IF start = 0
    THEN Raised("ValueError", "HTML content must contain a valid <head> section")
    ELSE Returned(SubSeq(h, 1, HeadEnd(h, start)) \o ScriptBlock(b, c)
                  \o SubSeq(h, HeadEnd(h, start) + 1, Len(h)))

(***************************************************************************)
(* The inputs of inject_env_variables.                                     *)
(***************************************************************************)
Fragments == <<
    <<"<", "h", "t", "m", "l", ">">>,
    <<"<", "h", "e", "a", "d", ">">>,
    <<"<", "H", "E", "A", "D", ">">>,
    <<"<", "H", "e", "a", "d", SP, "l", "a", "n", "g", "=", QUOTE, "e", "n", QUOTE, ">">>,
    <<"<", "/", "h", "e", "a", "d", ">">>,
    <<"<", "b", "o", "d", "y", ">">>,
    <<"<", "h", "e", "a", "d", "e", "r", ">">>,
    <<"<", "h", "e", "a", "d">>,
    <<"<", "h", "e", "a", ">">>,
    <<">">> >>

\* Every concatenation of at most MaxFrags fragments.
Htmls ==
    { Concat([k \in 1..n |-> Fragments[f[k]]]) :
        n \in 0..MaxFrags, f \in [1..MaxFrags -> 1..Len(Fragments)] }

SampleHtmls == { <<"<", "h", "t", "m", "l", ">", "<", "h", "e", "a", "d", ">", "<", "/", "h", "e", "a", "d", ">", "<", "b", "o", "d", "y", ">", "<", "/", "b", "o", "d", "y", ">", "<", "/", "h", "t", "m", "l", ">">>, <<"<", "h", "t", "m", "l", ">", "<", "h", "e", "a", "d", SP, "l", "a", "n", "g", "=", QUOTE, "e", "n", QUOTE, ">", "<", "t", "i", "t", "l", "e", ">", "x", "<", "/", "t", "i", "t", "l", "e", ">", "<", "/", "h", "e", "a", "d", ">", "<", "/", "h", "t", "m", "l", ">">> }

\* The characters the serialization has to get right.
Alphabet == {QUOTE, BSL, NL, LT, GT, "/", "n"}

\* Every text of at most MaxStrLen characters of the alphabet.
Strings == UNION { [1..n -> Alphabet] : n \in 0..MaxStrLen }

TITLE == <<"t", "i", "t", "l", "e">>

SampleUrls == { <<>>, <<"h", "t", "t", "p", ":", "/", "/", "a", "p", "i", ".", "e", "x", "a", "m", "p", "l", "e", ".", "c", "o", "m">> }

SampleConfigs == {
    NoConfig,
    JObj(<<>>),
    JObj(<< <<TITLE, JStr(<<"T", "e", "s", "t", SP, "A", "g", "e", "n", "t">>)>>, <<<<"t", "h", "e", "m", "e">>, JStr(<<"d", "a", "r", "k">>)>> >>),
    JObj(<< <<<<"n", "e", "s", "t", "e", "d">>, JObj(<< <<<<"v", "a", "l", "u", "e">>, JNum(123)>> >>)>>,
            <<<<"a", "r", "r", "a", "y">>, JArr(<<JNum(1), JNum(2), JNum(3)>>)>>,
            <<<<"b", "o", "o", "l", "e", "a", "n">>, JBool(TRUE)>>,
            <<<<"n", "o", "n", "e">>, JNull>> >>),
    JObj(<< <<TITLE, JStr(<<"<", "/", "s", "c", "r", "i", "p", "t", ">">>)>> >>) }

\* Configurations whose strings (a value, a key) are the special texts.
StrConfigs ==
    { JObj(<< <<TITLE, JStr(s)>> >>) : s \in Strings }
    \cup { JObj(<< <<s, JArr(<<JStr(s)>>)>> >>) : s \in Strings }

InjectInputs ==
    (Htmls \X SampleUrls \X {NoConfig, JObj(<< <<TITLE, JStr(<<"T", "e", "s", "t", SP, "A", "g", "e", "n", "t">>)>> >>)})
    \cup (SampleHtmls \X SampleUrls \X (SampleConfigs \cup StrConfigs))
    \cup (SampleHtmls \X Strings \X {NoConfig})

(***************************************************************************)
(* The registry, the archives it serves, and the static directories.       *)
(***************************************************************************)
\* version=None of download_static_assets / download_npm_package.
NoVersion == "<None>"
\* A registry answer without "dist-tags".
NoTag == "<no dist-tags>"
\* No _static_version.py (a development checkout).
NoRecord == "<no record>"

Packages == {"tarko_agent_ui", "tarko_web_ui", "agent_sandbox"}

Versions == {"0.9.0", "1.0.0", "1.1.0", "1.2.3", "2.0.0"}

\* What callers pass as version: nothing, a published version, an
\* unpublished one, the tag name.
VersionArgs ==
    {NoVersion, "0.9.0", "1.0.0", "1.1.0", "1.2.3", "2.0.0", "9.9.9", "latest"}

\* The answers of GET registry.npmjs.org/%40tarko/agent-ui-builder: the
\* "dist-tags".latest value and the keys of "versions".
Registries == {
    [latest |-> "1.2.3", versions |-> {"1.0.0", "1.1.0", "1.2.3", "2.0.0"}],
    [latest |-> "2.0.0", versions |-> {"0.9.0", "1.0.0", "2.0.0"}],
    [latest |-> NoTag, versions |-> {"1.0.0"}],
    [latest |-> "9.9.9", versions |-> {"1.0.0", "1.2.3"}] }

\* A member name is the sequence of its "/"-separated components:
\* "package/static/" is <<"package", "static", "">>.
INDEX_HTML == <<"index.html">>

\* The archive of each version: its member names in archive order, or
\* corrupt (not a gzip-compressed tar).
Tarball(v) ==
    CASE v = "0.9.0" ->
            [corrupt |-> FALSE,
             members |-> << <<"package", "static", "index.html">> >>]
      [] v = "1.0.0" ->
            [corrupt |-> FALSE,
             members |-> << <<"package", "package.json">>,
                            <<"package", "static", "">>,
                            <<"package", "static", "index.html">>,
                            <<"package", "static", "assets", "app.js">> >>]
      [] v = "1.2.3" ->
            [corrupt |-> FALSE,
             members |-> << <<"package", "static", "index.html">>,
                            <<"package", "static", "assets", "new.js">>,
                            <<"package", "README.md">> >>]
      [] v = "2.0.0" ->
            [corrupt |-> FALSE,
             members |-> << <<"package", "package.json">>,
                            <<"package", "dist", "index.html">> >>]
      [] OTHER -> [corrupt |-> TRUE, members |-> <<>>]

\* A directory: whether it exists, and its files, each with the version of
\* the archive that wrote it.
NoDir == [exists |-> FALSE, files |-> {}]
EmptyDir == [exists |-> TRUE, files |-> {}]

FilePaths(d) == {f.path : f \in d.files}

\* The directory after file path was written from the archive of version v.
WriteFile(d, path, v) ==
    [exists |-> TRUE,
     files |-> {f \in d.files : f.path # path} \cup {[path |-> path, ver |-> v]}]

\* member.name.startswith("package/static/")
StartsWithStaticPrefix(name) ==
    Len(name) >= 3 /\ name[1] = "package" /\ name[2] = "static"

\* member.name[15:], the name without the "package/static/" prefix.
StripStaticPrefix(name) == SubSeq(name, 3, Len(name))

\* The empty string as a path: "if relative_path" is false for it.
IsEmptyPath(path) == path = <<"">>

\* What a call gave: a returned value, or a raised exception with its
\* message (and, for "Version ... not found", the versions it lists).
Outcome(k, e, m, v) ==
    [kind |-> k, exc |-> e, msg |-> m, value |-> v, available |-> {}]
NoOutcome == Outcome("none", "", "", "")
\* Python's None as a returned value.
None == "None"

(***************************************************************************)
(* tarko_agent_ui.get_static_path: the fail-fast variant.                  *)
(***************************************************************************)
\* A faulty variant: only the directory is checked (as agent_sandbox does).
StaticPathOutcomeDirOnly(d, path) ==
    IF ~d.exists
    THEN Outcome("error", "FileNotFoundError", "Static assets not found", "")
    ELSE Outcome("ok", "", "", path)

\* What get_static_path gives for directory d whose absolute path is path.
StaticPathOutcome(d, path) ==
    IF ~d.exists
    THEN Outcome("error", "FileNotFoundError", "Static assets not found", "")
    ELSE IF INDEX_HTML \notin FilePaths(d)
    THEN Outcome("error", "FileNotFoundError", "index.html not found", "")
    ELSE Outcome("ok", "", "", path)

StaticDirPath(pkg) == <<pkg, "static">>

\* No get_static_path call yet.  download: what the acquisition gave that
\* the call triggered, if it triggered one.
NoStaticPathCall == [pkg |-> "", download |-> NoOutcome, out |-> NoOutcome]

\* A faulty variant: missing assets are downloaded on the way (the auto-provisioning
\* variant's behaviour).
get_static_path_auto ==
    LET d == static_dirs["tarko_agent_ui"] IN
    /\ gsp' = [pkg |-> "tarko_agent_ui", download |-> NoOutcome,
               out |-> Outcome("ok", "", "", StaticDirPath("tarko_agent_ui"))]
    /\ static_dirs' =
          IF ~d.exists \/ INDEX_HTML \notin FilePaths(d)
          THEN [static_dirs EXCEPT !["tarko_agent_ui"] =
                   WriteFile(EmptyDir, INDEX_HTML, "1.0.0")]
          ELSE static_dirs
    /\ UNCHANGED <<registry, static_version, build, acq, injectVars, toolVars, callVars>>

get_static_path ==
    /\ gsp' = [pkg |-> "tarko_agent_ui", download |-> NoOutcome,
               out |-> StaticPathOutcome(static_dirs["tarko_agent_ui"],
                                         StaticDirPath("tarko_agent_ui"))]
    /\ UNCHANGED <<registry, static_dirs, static_version, build, acq, injectVars, toolVars, callVars>>

(***************************************************************************)
(* Extraction: the loop body over tar.getmembers().                        *)
(***************************************************************************)
\* A faulty variant: the bare "package/static/" entry is not skipped.
ExtractMemberNoSkip(d, name, v) ==
    IF StartsWithStaticPrefix(name)
    THEN WriteFile(d, StripStaticPrefix(name), v)
    ELSE d

\* The directory after the loop body ran on one member of the archive of
\* version v.
ExtractMember(d, name, v) ==
    IF StartsWithStaticPrefix(name) /\ ~IsEmptyPath(StripStaticPrefix(name))
    THEN WriteFile(d, StripStaticPrefix(name), v)
    ELSE d

RECURSIVE ExtractAll(_, _, _)
ExtractAll(d, members, v) ==
    IF members = <<>> THEN d
    ELSE ExtractAll(ExtractMember(d, Head(members), v), Tail(members), v)

(***************************************************************************)
(* scripts/build_assets.py: download_npm_package(version, target_dir) and  *)
(* create_version_file(version), run for tarko_agent_ui/static.            *)
(***************************************************************************)
\* A faulty variant: the tag name is returned when no version is given, and
\* nothing is looked up in "versions".
download_npm_package_tag(version, d, meta_ok, archive_ok) ==
    LET target == IF version = NoVersion THEN registry.latest ELSE version IN
    IF ~meta_ok
    THEN [dir |-> d, out |-> Outcome("error", "URLError", "registry", "")]
    ELSE IF ~archive_ok
    THEN [dir |-> EmptyDir, out |-> Outcome("error", "URLError", "tarball", "")]
    ELSE [dir |-> ExtractAll(EmptyDir, Tarball(target).members, target),
          out |-> Outcome("ok", "", "",
                          IF version = NoVersion THEN "latest" ELSE version)]

\* The run's outcome and the directory it leaves, for a version argument
\* and the two fetches succeeding or not.
download_npm_package(version, d, meta_ok, archive_ok) ==
    LET target == IF version = NoVersion THEN registry.latest ELSE version IN
    IF ~meta_ok
    THEN [dir |-> d, out |-> Outcome("error", "URLError", "registry", "")]
    ELSE IF version = NoVersion /\ registry.latest = NoTag
    THEN [dir |-> d, out |-> Outcome("error", "KeyError", "dist-tags", "")]
    ELSE IF target \notin registry.versions
    THEN [dir |-> d,
          out |-> [Outcome("error", "ValueError", "Version not found", target)
                     EXCEPT !.available = registry.versions]]
    ELSE IF ~archive_ok
    THEN [dir |-> EmptyDir, out |-> Outcome("error", "URLError", "tarball", "")]
    ELSE [dir |-> ExtractAll(EmptyDir, Tarball(target).members, target),
          out |-> Outcome("ok", "", "", target)]

\* One run of the build script: the assets are acquired and, when that
\* succeeded, the version record is written.
build_assets ==
    \E version \in VersionArgs, meta_ok \in BOOLEAN, archive_ok \in BOOLEAN :
        LET r == download_npm_package(version, static_dirs["tarko_agent_ui"],
                                      meta_ok, archive_ok)
        IN  /\ static_dirs' = [static_dirs EXCEPT !["tarko_agent_ui"] = r.dir]
            /\ static_version' =
                  IF r.out.kind = "ok" THEN r.out.value ELSE static_version
            /\ build' = [version |-> version, out |-> r.out]
            /\ UNCHANGED <<registry, gsp, acq, injectVars, toolVars, callVars>>

(***************************************************************************)
(* tarko_web_ui.download_static_assets(version), step by step.             *)
(***************************************************************************)
AcqIdle ==
    [pc |-> "idle", version |-> NoVersion, target_version |-> "",
     tmp_file |-> FALSE, idx |-> 0, extracted_count |-> 0,
     meta_fetches |-> 0, archive_fetches |-> 0, out |-> NoOutcome]

WebDir == static_dirs["tarko_web_ui"]

\* A faulty variant: the temporary file outlives a call that raised.
AcqRaiseKeepTemp(a, e, m, v) ==
    [a EXCEPT !.pc = "done", !.out = Outcome("error", e, m, v)]

\* The except clause: the error is printed and raised again; leaving the
\* with blocks removed the temporary file.
AcqRaise(a, e, m, v) ==
    [a EXCEPT !.pc = "done", !.tmp_file = FALSE, !.out = Outcome("error", e, m, v)]

\* A faulty variant: the version argument is ignored and the latest tag is taken.
TargetVersionAlwaysLatest(version, info) == info.latest

\* target_version: the latest tag when no version is given, else the version.
TargetVersion(version, info) ==
    IF version = NoVersion THEN info.latest ELSE version

\* A faulty variant: the directory is deleted as soon as the call starts.
AcqStartDeleting ==
    /\ acq.pc \in {"idle", "done"}
    /\ \E version \in VersionArgs :
          acq' = [AcqIdle EXCEPT !.pc = "fetch_meta", !.version = version]
    /\ static_dirs' = [static_dirs EXCEPT !["tarko_web_ui"] = NoDir]
    /\ UNCHANGED <<registry, static_version, build, gsp, injectVars, toolVars, callVars>>

\* The call starts; no call is in progress.
AcqStart ==
    /\ acq.pc \in {"idle", "done"}
    /\ \E version \in VersionArgs :
          acq' = [AcqIdle EXCEPT !.pc = "fetch_meta", !.version = version]
    /\ UNCHANGED <<registry, static_dirs, static_version, build, gsp, injectVars, toolVars, callVars>>

\* A faulty variant: a failed metadata fetch is tried once more.
AcqFetchMetadataRetry ==
    /\ acq.pc = "fetch_meta"
    /\ \E ok \in BOOLEAN :
          acq' = IF ok
                 THEN [acq EXCEPT !.pc = "resolve",
                                  !.meta_fetches = acq.meta_fetches + 1]
                 ELSE IF acq.meta_fetches = 0
                 THEN [acq EXCEPT !.meta_fetches = acq.meta_fetches + 1]
                 ELSE [AcqRaise(acq, "URLError", "registry", "")
                         EXCEPT !.meta_fetches = acq.meta_fetches + 1]
    /\ UNCHANGED <<registry, static_dirs, static_version, build, gsp, injectVars, toolVars, callVars>>

\* urlopen(registry_url) and json.loads: the metadata arrives, or the fetch
\* raises.
AcqFetchMetadata ==
    /\ acq.pc = "fetch_meta"
    /\ \E ok \in BOOLEAN :
          acq' = IF ok
                 THEN [acq EXCEPT !.pc = "resolve",
                                  !.meta_fetches = acq.meta_fetches + 1]
                 ELSE [AcqRaise(acq, "URLError", "registry", "")
                         EXCEPT !.meta_fetches = acq.meta_fetches + 1]
    /\ UNCHANGED <<registry, static_dirs, static_version, build, gsp, injectVars, toolVars, callVars>>

\* A faulty variant: the target version is not looked up in "versions"; the
\* call goes on to the archive.
AcqResolveVersionNoCheck ==
    /\ acq.pc = "resolve"
    /\ acq' =
          IF acq.version = NoVersion /\ registry.latest = NoTag
          THEN AcqRaise(acq, "KeyError", "dist-tags", "")
          ELSE [acq EXCEPT !.pc = "rmtree",
                           !.target_version = TargetVersion(acq.version, registry)]
    /\ UNCHANGED <<registry, static_dirs, static_version, build, gsp, injectVars, toolVars, callVars>>

\* The target version is resolved and looked up in "versions".
AcqResolveVersion ==
    /\ acq.pc = "resolve"
    /\ acq' =
          IF acq.version = NoVersion /\ registry.latest = NoTag
          THEN AcqRaise(acq, "KeyError", "dist-tags", "")
          ELSE IF TargetVersion(acq.version, registry) \notin registry.versions
          THEN [AcqRaise(acq, "ValueError", "Version not found",
                         TargetVersion(acq.version, registry))
                  EXCEPT !.out.available = registry.versions,
                         !.target_version = TargetVersion(acq.version, registry)]
          ELSE [acq EXCEPT !.pc = "rmtree",
                           !.target_version = TargetVersion(acq.version, registry)]
    /\ UNCHANGED <<registry, static_dirs, static_version, build, gsp, injectVars, toolVars, callVars>>

\* A faulty variant: an existing directory is kept as it is.
AcqRmtreeSkipped ==
    /\ acq.pc = "rmtree"
    /\ acq' = [acq EXCEPT !.pc = "mkdir"]
    /\ UNCHANGED <<registry, static_dirs, static_version, build, gsp, injectVars, toolVars, callVars>>

\* if static_dir.exists(): shutil.rmtree(static_dir)
AcqRmtree ==
    /\ acq.pc = "rmtree"
    /\ static_dirs' = [static_dirs EXCEPT !["tarko_web_ui"] = NoDir]
    /\ acq' = [acq EXCEPT !.pc = "mkdir"]
    /\ UNCHANGED <<registry, static_version, build, gsp, injectVars, toolVars, callVars>>

\* static_dir.mkdir(parents=True, exist_ok=True)
AcqMkdir ==
    /\ acq.pc = "mkdir"
    /\ static_dirs' = [static_dirs EXCEPT !["tarko_web_ui"].exists = TRUE]
    /\ acq' = [acq EXCEPT !.pc = "mktemp"]
    /\ UNCHANGED <<registry, static_version, build, gsp, injectVars, toolVars, callVars>>

\* tempfile.NamedTemporaryFile(suffix=".tgz")
AcqMktemp ==
    /\ acq.pc = "mktemp"
    /\ acq' = [acq EXCEPT !.pc = "download", !.tmp_file = TRUE]
    /\ UNCHANGED <<registry, static_dirs, static_version, build, gsp, injectVars, toolVars, callVars>>

\* urlopen(tarball_url) and copyfileobj: the archive arrives, or the fetch
\* raises.
AcqDownload ==
    /\ acq.pc = "download"
    /\ \E ok \in BOOLEAN :
          acq' = IF ok
                 THEN [acq EXCEPT !.pc = "open_tar",
                                  !.archive_fetches = acq.archive_fetches + 1]
                 ELSE [AcqRaise(acq, "URLError", "tarball", "")
                         EXCEPT !.archive_fetches = acq.archive_fetches + 1]
    /\ UNCHANGED <<registry, static_dirs, static_version, build, gsp, injectVars, toolVars, callVars>>

\* A faulty variant: a corrupt archive is taken as one without members.
AcqOpenTarLenient ==
    /\ acq.pc = "open_tar"
    /\ acq' = [acq EXCEPT !.pc = "extract", !.idx = 1, !.extracted_count = 0]
    /\ UNCHANGED <<registry, static_dirs, static_version, build, gsp, injectVars, toolVars, callVars>>

\* tarfile.open(tmp_file.name, "r:gz"): a corrupt archive raises ReadError.
AcqOpenTar ==
    /\ acq.pc = "open_tar"
    /\ acq' = IF Tarball(acq.target_version).corrupt
              THEN AcqRaise(acq, "ReadError", "not a gzip file", "")
              ELSE [acq EXCEPT !.pc = "extract", !.idx = 1, !.extracted_count = 0]
    /\ UNCHANGED <<registry, static_dirs, static_version, build, gsp, injectVars, toolVars, callVars>>

\* member is selected: tar.extract is called for it.
IsSelected(name) ==
    StartsWithStaticPrefix(name) /\ ~IsEmptyPath(StripStaticPrefix(name))

\* One turn of the loop over tar.getmembers(): the member is passed over or
\* extracted, or tar.extract raises (the disk is full, the archive is
\* truncated) and the call ends with what was written so far.
AcqExtractMember ==
    /\ acq.pc = "extract"
    /\ acq.idx <= Len(Tarball(acq.target_version).members)
    /\ LET name == Tarball(acq.target_version).members[acq.idx]
           d == ExtractMember(WebDir, name, acq.target_version)
       IN  \E ok \in BOOLEAN :
             /\ ok \/ IsSelected(name)
             /\ static_dirs' = IF ok
                               THEN [static_dirs EXCEPT !["tarko_web_ui"] = d]
                               ELSE static_dirs
             /\ acq' = IF ok
                       THEN [acq EXCEPT !.idx = acq.idx + 1,
                                        !.extracted_count =
                                            IF IsSelected(name)
                                            THEN acq.extracted_count + 1
                                            ELSE acq.extracted_count]
                       ELSE AcqRaise(acq, "OSError", "extract", "")
    /\ UNCHANGED <<registry, static_version, build, gsp, injectVars, toolVars, callVars>>

\* The loop is over: the with blocks are left (the temporary file is
\* removed) and the function returns None.
AcqFinish ==
    /\ acq.pc = "extract"
    /\ acq.idx > Len(Tarball(acq.target_version).members)
    /\ acq' = [acq EXCEPT !.pc = "done", !.tmp_file = FALSE,
                          !.out = Outcome("ok", "", "", None)]
    /\ UNCHANGED <<registry, static_dirs, static_version, build, gsp, injectVars, toolVars, callVars>>

(***************************************************************************)
(* tarko_web_ui.download_static_assets as one step, and the                *)
(* auto-provisioning tarko_web_ui.get_static_path that calls it.           *)
(***************************************************************************)
\* What a whole call gives and the directory it leaves, for directory d:
\* meta_ok and archive_ok say whether the two fetches succeed, fail_at is
\* the member at which tar.extract raises (0: at none).
download_static_assets(version, d, meta_ok, archive_ok, fail_at) ==
    LET target == TargetVersion(version, registry)
        members == Tarball(target).members
    IN  IF ~meta_ok
        THEN [dir |-> d, out |-> Outcome("error", "URLError", "registry", "")]
        ELSE IF version = NoVersion /\ registry.latest = NoTag
        THEN [dir |-> d, out |-> Outcome("error", "KeyError", "dist-tags", "")]
        ELSE IF target \notin registry.versions
        THEN [dir |-> d,
              out |-> [Outcome("error", "ValueError", "Version not found", target)
                         EXCEPT !.available = registry.versions]]
        ELSE IF ~archive_ok
        THEN [dir |-> EmptyDir, out |-> Outcome("error", "URLError", "tarball", "")]
        ELSE IF Tarball(target).corrupt
        THEN [dir |-> EmptyDir,
              out |-> Outcome("error", "ReadError", "not a gzip file", "")]
        ELSE IF fail_at \in 1..Len(members) /\ IsSelected(members[fail_at])
        THEN [dir |-> ExtractAll(EmptyDir, SubSeq(members, 1, fail_at - 1), target),
              out |-> Outcome("error", "OSError", "extract", "")]
        ELSE [dir |-> ExtractAll(EmptyDir, members, target),
              out |-> Outcome("ok", "", "", None)]

\* The members of the archive a call without a version would fetch.
LatestMembers == Tarball(TargetVersion(NoVersion, registry)).members

\* if not static_dir.exists() or not (static_dir / "index.html").exists()
AssetsMissing(d) == ~d.exists \/ INDEX_HTML \notin FilePaths(d)

\* tarko_web_ui.get_static_path() on directory d: when the directory or
\* its index.html is missing, download_static_assets() is called and any
\* exception of it is raised as FileNotFoundError; the path is returned
\* without a second look.  Gives the directory left, what the download
\* gave (NoOutcome: none was made) and what the call gives.
WebStaticPath(d, meta_ok, archive_ok, fail_at) ==
    IF AssetsMissing(d)
    THEN LET r == download_static_assets(NoVersion, d, meta_ok, archive_ok, fail_at)
         IN  [dir |-> r.dir, download |-> r.out,
              out |-> IF r.out.kind = "error"
                      THEN Outcome("error", "FileNotFoundError",
                                   "Failed to download static assets", "")
                      ELSE Outcome("ok", "", "", StaticDirPath("tarko_web_ui"))]
    ELSE [dir |-> d, download |-> NoOutcome,
          out |-> Outcome("ok", "", "", StaticDirPath("tarko_web_ui"))]

\* A faulty variant: get_static_path waits while an acquisition is running.
web_get_static_path_locked ==
    /\ acq.pc \in {"idle", "done"}
    /\ \E meta_ok \in BOOLEAN, archive_ok \in BOOLEAN,
          fail_at \in 0..Len(LatestMembers) :
          LET r == WebStaticPath(WebDir, meta_ok, archive_ok, fail_at)
          IN  /\ static_dirs' = [static_dirs EXCEPT !["tarko_web_ui"] = r.dir]
              /\ gsp' = [pkg |-> "tarko_web_ui", download |-> r.download,
                         out |-> r.out]
    /\ UNCHANGED <<registry, static_version, build, acq, injectVars, toolVars,
                   callVars>>

\* A get_static_path call of the tarko_web_ui package.
web_get_static_path ==
    /\ \E meta_ok \in BOOLEAN, archive_ok \in BOOLEAN,
          fail_at \in 0..Len(LatestMembers) :
          LET r == WebStaticPath(WebDir, meta_ok, archive_ok, fail_at)
          IN  /\ static_dirs' = [static_dirs EXCEPT !["tarko_web_ui"] = r.dir]
              /\ gsp' = [pkg |-> "tarko_web_ui", download |-> r.download,
                         out |-> r.out]
    /\ UNCHANGED <<registry, static_version, build, acq, injectVars, toolVars,
                   callVars>>

(***************************************************************************)
(* agent_sandbox: get_static_path, download_static_assets, and the         *)
(* post-install step of its setup.py; all three work on                    *)
(* agent_sandbox/static.                                                   *)
(***************************************************************************)
SandboxDir == static_dirs["agent_sandbox"]

\* No acquisition into agent_sandbox/static yet.  warned: the error was
\* only printed as a warning and the step returned normally.
SbxIdle ==
    [op |-> "none", latest_version |-> "", warned |-> FALSE, out |-> NoOutcome]

\* member.name[8:], the name without the "package/" prefix.
StripPackagePrefix(name) == SubSeq(name, 2, Len(name))

\* relative_path == "static/"
IsStaticDirEntry(path) == path = <<"static", "">>

\* agent_sandbox.get_static_path: only the directory is looked at.
SandboxStaticPathOutcome(d, path) ==
    IF ~d.exists
    THEN Outcome("error", "FileNotFoundError", "Static assets not found", "")
    ELSE Outcome("ok", "", "", path)

sandbox_get_static_path ==
    /\ gsp' = [pkg |-> "agent_sandbox", download |-> NoOutcome,
               out |-> SandboxStaticPathOutcome(SandboxDir,
                                                StaticDirPath("agent_sandbox"))]
    /\ UNCHANGED <<registry, static_dirs, static_version, build, acq,
                   injectVars, toolVars, callVars>>

\* The loop body of agent_sandbox.download_static_assets on one member.
SandboxExtractMember(d, name, v) ==
    IF /\ StartsWithStaticPrefix(name)
       /\ ~IsEmptyPath(StripPackagePrefix(name))
       /\ ~IsStaticDirEntry(StripPackagePrefix(name))
    THEN WriteFile(d, StripPackagePrefix(name), v)
    ELSE d

RECURSIVE SandboxExtractAll(_, _, _)
SandboxExtractAll(d, members, v) ==
    IF members = <<>> THEN d
    ELSE SandboxExtractAll(SandboxExtractMember(d, Head(members), v),
                           Tail(members), v)

\* The loop body of setup.py's download_npm_package on one member.
PostInstallExtractMember(d, name, v) ==
    IF StartsWithStaticPrefix(name) /\ ~IsEmptyPath(StripPackagePrefix(name))
    THEN WriteFile(d, StripPackagePrefix(name), v)
    ELSE d

RECURSIVE PostInstallExtractAll(_, _, _)
PostInstallExtractAll(d, members, v) ==
    IF members = <<>> THEN d
    ELSE PostInstallExtractAll(PostInstallExtractMember(d, Head(members), v),
                               Tail(members), v)

\* The error that ends either acquisition before the directory is touched,
\* or NoOutcome: the registry fetch failed, it has no latest tag, or the
\* latest tag is no key of "versions".
SandboxResolveError(meta_ok) ==
    IF ~meta_ok
    THEN Outcome("error", "URLError", "registry", "")
    ELSE IF registry.latest = NoTag
    THEN Outcome("error", "KeyError", "dist-tags", "")
    ELSE IF registry.latest \notin registry.versions
    THEN Outcome("error", "KeyError", "versions", registry.latest)
    ELSE NoOutcome

\* The error of the archive fetch or of tarfile.open, or NoOutcome.
SandboxArchiveError(archive_ok) ==
    IF ~archive_ok
    THEN Outcome("error", "URLError", "tarball", "")
    ELSE IF Tarball(registry.latest).corrupt
    THEN Outcome("error", "ReadError", "not a gzip file", "")
    ELSE NoOutcome

\* agent_sandbox.download_static_assets(): always the latest version; the
\* directory is removed and made again; errors are raised again.
sandbox_download_static_assets ==
    \E meta_ok \in BOOLEAN, archive_ok \in BOOLEAN :
        LET e1 == SandboxResolveError(meta_ok)
            e2 == SandboxArchiveError(archive_ok)
            v == registry.latest
        IN  /\ static_dirs' =
                  [static_dirs EXCEPT !["agent_sandbox"] =
                      IF e1 # NoOutcome THEN @
                      ELSE IF e2 # NoOutcome THEN EmptyDir
                      ELSE SandboxExtractAll(EmptyDir, Tarball(v).members, v)]
            /\ sbx' = [op |-> "download_static_assets",
                       latest_version |-> IF meta_ok /\ v # NoTag THEN v ELSE "",
                       warned |-> FALSE,
                       out |-> IF e1 # NoOutcome THEN e1
                               ELSE IF e2 # NoOutcome THEN e2
                               ELSE Outcome("ok", "", "", None)]
            /\ UNCHANGED <<registry, static_version, build, gsp, acq,
                           injectVars, toolVars, loaded, version_info, ui>>

\* setup.py, PostInstallCommand.download_npm_package(): always the latest
\* version; the directory is made if it is not there and is not emptied;
\* every error is printed as a warning and the step returns.
post_install_download_npm_package ==
    \E meta_ok \in BOOLEAN, archive_ok \in BOOLEAN :
        LET e1 == SandboxResolveError(meta_ok)
            e2 == SandboxArchiveError(archive_ok)
            v == registry.latest
            made == [SandboxDir EXCEPT !.exists = TRUE]
        IN  /\ static_dirs' =
                  [static_dirs EXCEPT !["agent_sandbox"] =
                      IF e1 # NoOutcome THEN @
                      ELSE IF e2 # NoOutcome THEN made
                      ELSE PostInstallExtractAll(made, Tarball(v).members, v)]
            /\ sbx' = [op |-> "post_install",
                       latest_version |-> IF meta_ok /\ v # NoTag THEN v ELSE "",
                       warned |-> e1 # NoOutcome \/ e2 # NoOutcome,
                       out |-> Outcome("ok", "", "", None)]
            /\ UNCHANGED <<registry, static_version, build, gsp, acq,
                           injectVars, toolVars, loaded, version_info, ui>>

\* Between two acquisitions the registry's answer changes: versions were
\* published, the latest tag was moved.
registry_update ==
    /\ \E r \in Registries : r # registry /\ registry' = r
    /\ UNCHANGED <<static_dirs, static_version, build, gsp, acq,
                   injectVars, toolVars, callVars>>

(***************************************************************************)
(* tarko_agent_ui.get_static_version and get_agent_ui_html.                *)
(***************************************************************************)
\* tarko_agent_ui.__version__
SDK_VERSION == "0.3.0b11"

\* The package name create_version_file writes, and the fallback value of
\* STATIC_ASSETS_PACKAGE.
AGENT_UI_BUILDER == "@tarko/agent-ui-builder"

\* No process has imported tarko_agent_ui yet.
NotImported == [version |-> "", package |-> ""]

\* No get_static_version call yet.
NoVersionInfo == [version |-> "", package |-> "", sdk_version |-> ""]

\* A faulty variant: no fallback when _static_version.py is absent.
ImportedConstantsNoFallback(rec) ==
    [version |-> rec, package |-> AGENT_UI_BUILDER]

\* STATIC_ASSETS_VERSION and STATIC_ASSETS_PACKAGE as the import statement
\* binds them: from the version record rec, or the fallback values when the
\* import of _static_version fails.
ImportedConstants(rec) ==
    IF rec = NoRecord
    THEN [version |-> "unknown", package |-> AGENT_UI_BUILDER]
    ELSE [version |-> rec, package |-> AGENT_UI_BUILDER]

\* A process imports tarko_agent_ui: the module-level constants are bound
\* from the version record as it is on disk now.
import_tarko_agent_ui ==
    /\ loaded' = ImportedConstants(static_version)
    /\ UNCHANGED <<fsVars, injectVars, toolVars, sbx, version_info, ui>>

\* get_static_version(): the constants bound at import and __version__.
get_static_version ==
    /\ loaded # NotImported
    /\ version_info' = [version |-> loaded.version,
                        package |-> loaded.package,
                        sdk_version |-> SDK_VERSION]
    /\ UNCHANGED <<fsVars, injectVars, toolVars, sbx, loaded, ui>>

\* The text of the index.html that the archive of version v holds: 1.0.0
\* and 1.2.3 have a head tag, the old 0.9.0 has none.
IndexContent(v) ==
    CASE v = "1.0.0" ->
            <<"<", "h", "t", "m", "l", ">", "<", "h", "e", "a", "d", ">", "<", "/", "h", "e", "a", "d", ">", "<", "b", "o", "d", "y", ">", "T", "e", "s", "t", SP, "U", "I", "<", "/", "b", "o", "d", "y", ">", "<", "/", "h", "t", "m", "l", ">">>
      [] v = "1.2.3" ->
            <<"<", "h", "t", "m", "l", ">", "<", "h", "e", "a", "d", SP, "l", "a", "n", "g", "=", QUOTE, "e", "n", QUOTE, ">", "<", "t", "i", "t", "l", "e", ">", "x", "<", "/", "t", "i", "t", "l", "e", ">", "<", "/", "h", "e", "a", "d", ">", "<", "/", "h", "t", "m", "l", ">">>
      [] OTHER ->
            <<"<", "h", "t", "m", "l", ">", "<", "b", "o", "d", "y", ">", "N", "o", SP, "h", "e", "a", "d", SP, "s", "e", "c", "t", "i", "o", "n", "<", "/", "b", "o", "d", "y", ">", "<", "/", "h", "t", "m", "l", ">">>

UiDir == static_dirs["tarko_agent_ui"]

\* The version of the archive that wrote d's index.html.
IndexVer(d) == (CHOOSE f \in d.files : f.path = INDEX_HTML).ver

\* The arguments of get_agent_ui_html calls: the defaults, or a base URL
\* and a configuration.
UiArgs ==
    { [api_base_url |-> <<>>, ui_config |-> NoConfig],
      [api_base_url |-> <<"h", "t", "t", "p", ":", "/", "/", "a", "p", "i", ".", "e", "x", "a", "m", "p", "l", "e", ".", "c", "o", "m">>,
       ui_config |-> JObj(<< <<TITLE, JStr(<<"T", "e", "s", "t">>)>> >>)] }

\* A get_agent_ui_html call: its position, its arguments, the version of
\* the index.html it read (src), what it returned or raised, and the same
\* of the call before it.
NoCall ==
    [api_base_url |-> <<>>, ui_config |-> NoConfig, src |-> "", out |-> NoResult]

\* No get_agent_ui_html call yet.
UiIdle ==
    [pc |-> "idle", api_base_url |-> <<>>, ui_config |-> NoConfig,
     src |-> "", out |-> NoResult, prev |-> NoCall]

\* The call ends with what it returned or raised.
UiEnd(u, r) == [u EXCEPT !.pc = "done", !.out = r]

\* The call starts; no call is in progress.
get_agent_ui_html_call ==
    /\ ui.pc \in {"idle", "done"}
    /\ \E args \in UiArgs :
          ui' = [pc |-> "get_static_path",
                 api_base_url |-> args.api_base_url,
                 ui_config |-> args.ui_config,
                 src |-> "", out |-> NoResult,
                 prev |-> [api_base_url |-> ui.api_base_url,
                           ui_config |-> ui.ui_config,
                           src |-> ui.src, out |-> ui.out]]
    /\ UNCHANGED <<fsVars, injectVars, toolVars, sbx, loaded, version_info>>

\* static_path = get_static_path(): its FileNotFoundError ends the call.
get_agent_ui_html_static_path ==
    /\ ui.pc = "get_static_path"
    /\ LET o == StaticPathOutcome(UiDir, StaticDirPath("tarko_agent_ui")) IN
          ui' = IF o.kind = "error"
                THEN UiEnd(ui, Raised(o.exc, o.msg))
                ELSE [ui EXCEPT !.pc = "check_index"]
    /\ UNCHANGED <<fsVars, injectVars, toolVars, sbx, loaded, version_info>>

\* A faulty variant: the entry file is read without looking whether it is there.
get_agent_ui_html_check_index_skipped ==
    /\ ui.pc = "check_index"
    /\ ui' = [ui EXCEPT !.pc = "read_text"]
    /\ UNCHANGED <<fsVars, injectVars, toolVars, sbx, loaded, version_info>>

\* if not index_file.exists(): raise FileNotFoundError
get_agent_ui_html_check_index ==
    /\ ui.pc = "check_index"
    /\ ui' = IF INDEX_HTML \notin FilePaths(UiDir)
             THEN UiEnd(ui, Raised("FileNotFoundError",
                                   "index.html not found in static assets"))
             ELSE [ui EXCEPT !.pc = "read_text"]
    /\ UNCHANGED <<fsVars, injectVars, toolVars, sbx, loaded, version_info>>

\* A faulty variant: the template read by the call before is used again.
get_agent_ui_html_read_inject_cached ==
    /\ ui.pc = "read_text"
    /\ ui' = IF INDEX_HTML \notin FilePaths(UiDir)
             THEN UiEnd(ui, Raised("FileNotFoundError", "No such file or directory"))
             ELSE LET v == IF ui.prev.src # "" THEN ui.prev.src ELSE IndexVer(UiDir)
                  IN  UiEnd([ui EXCEPT !.src = v],
                            inject_env_variables(IndexContent(v), ui.api_base_url,
                                                 ui.ui_config))
    /\ UNCHANGED <<fsVars, injectVars, toolVars, sbx, loaded, version_info>>

\* html = index_file.read_text(); return inject_env_variables(html, ...).
\* A file removed since the check makes read_text raise.
get_agent_ui_html_read_inject ==
    /\ ui.pc = "read_text"
    /\ ui' = IF INDEX_HTML \notin FilePaths(UiDir)
             THEN UiEnd(ui, Raised("FileNotFoundError", "No such file or directory"))
             ELSE UiEnd([ui EXCEPT !.src = IndexVer(UiDir)],
                        inject_env_variables(IndexContent(IndexVer(UiDir)),
                                             ui.api_base_url, ui.ui_config))
    /\ UNCHANGED <<fsVars, injectVars, toolVars, sbx, loaded, version_info>>

(***************************************************************************)
(* The HTTP applications: examples/fastapi_server.py, which serves the     *)
(* injected entry page of tarko_agent_ui, and tarko_web_ui/server.py.      *)
(***************************************************************************)
\* get_agent_ui_html(api_base_url, ui_config) as one step on directory d.
get_agent_ui_html(d, api_base_url, config) ==
    LET o == StaticPathOutcome(d, StaticDirPath("tarko_agent_ui")) IN
    IF o.kind = "error"
    THEN Raised(o.exc, o.msg)
    ELSE inject_env_variables(IndexContent(IndexVer(d)), api_base_url, config)

\* No application was created.  error: what create_app raised, if it did.
NoApp ==
    [created |-> FALSE, error |-> "", base_url |-> <<>>, ui_config |-> NoConfig,
     mounted |-> FALSE]

\* A JSON body: the fields the two applications put into one.
Json(status, error, suggestion) ==
    [status |-> status, error |-> error, suggestion |-> suggestion,
     static_exists |-> FALSE, index_exists |-> FALSE]

NoJson == Json("", <<>>, "")

\* An HTTP response: html is the text of an HTML body, json a JSON body
\* (with HTTPException, the detail).
NoResponse ==
    [server |-> "", route |-> "", status_code |-> "", html |-> <<>>,
     json |-> NoJson]

HtmlResponse(server, route, text) ==
    [server |-> server, route |-> route, status_code |-> "200", html |-> text,
     json |-> NoJson]

JsonResponse(server, route, code, body) ==
    [server |-> server, route |-> route, status_code |-> code, html |-> <<>>,
     json |-> body]

BUILD_SUGGESTION == "Run 'python scripts/build_assets.py' to build static assets"

DOWNLOAD_SUGGESTION == "Run 'tarko-web-ui download' to download static assets"

\* handle_missing_assets(e, "api"): HTTPException 500 with the error and
\* the suggestion.
handle_missing_assets(msg) ==
    JsonResponse("example", "/", "500", Json("", <<msg>>, BUILD_SUGGESTION))

\* A faulty variant: the application is not created without assets.
example_create_app_strict ==
    /\ ~app.created
    /\ \E args \in UiArgs :
          LET o == StaticPathOutcome(UiDir, StaticDirPath("tarko_agent_ui")) IN
          app' = IF o.kind = "ok"
                 THEN [created |-> TRUE, error |-> "",
                       base_url |-> args.api_base_url,
                       ui_config |-> args.ui_config, mounted |-> TRUE]
                 ELSE [NoApp EXCEPT !.error = o.exc]
    /\ UNCHANGED <<injectVars, fsVars, callVars, web_app, response, release>>

\* examples.fastapi_server.create_app(base_url, ui_config): /static is
\* mounted when get_static_path succeeds; its FileNotFoundError is printed
\* by handle_missing_assets(e, "startup") and the application is returned.
example_create_app ==
    /\ ~app.created
    /\ \E args \in UiArgs :
          LET o == StaticPathOutcome(UiDir, StaticDirPath("tarko_agent_ui")) IN
          app' = [created |-> TRUE, error |-> "",
                  base_url |-> args.api_base_url,
                  ui_config |-> args.ui_config,
                  mounted |-> o.kind = "ok"]
    /\ UNCHANGED <<injectVars, fsVars, callVars, web_app, response, release>>

\* A faulty variant: a page that cannot be injected is served as it is.
example_root_lenient ==
    /\ app.created
    /\ LET r == get_agent_ui_html(UiDir, app.base_url, app.ui_config) IN
          response' =
             IF r.kind = "ok" THEN HtmlResponse("example", "/", r.html)
             ELSE IF r.exc = "FileNotFoundError" THEN handle_missing_assets(r.msg)
             ELSE HtmlResponse("example", "/", IndexContent(IndexVer(UiDir)))
    /\ UNCHANGED <<injectVars, fsVars, callVars, app, web_app, release>>

\* GET / of the example application.
example_root ==
    /\ app.created
    /\ LET r == get_agent_ui_html(UiDir, app.base_url, app.ui_config) IN
          response' =
             IF r.kind = "ok" THEN HtmlResponse("example", "/", r.html)
             ELSE IF r.exc = "FileNotFoundError" THEN handle_missing_assets(r.msg)
             ELSE JsonResponse("example", "/", "500",
                               Json("", <<"HTML injection failed", r.msg>>, ""))
    /\ UNCHANGED <<injectVars, fsVars, callVars, app, web_app, release>>

\* GET /api/v1/health of the example application.
example_health ==
    /\ app.created
    /\ response' = JsonResponse("example", "/api/v1/health", "200",
                                Json("ok", <<>>, ""))
    /\ UNCHANGED <<injectVars, fsVars, callVars, app, web_app, release>>

\* tarko_web_ui.server.create_app(): /static is mounted when the
\* auto-provisioning get_static_path succeeds; its FileNotFoundError is
\* printed and the application is returned.
web_create_app ==
    /\ ~web_app.created
    /\ \E meta_ok \in BOOLEAN, archive_ok \in BOOLEAN,
          fail_at \in 0..Len(LatestMembers) :
          LET r == WebStaticPath(WebDir, meta_ok, archive_ok, fail_at)
          IN  /\ static_dirs' = [static_dirs EXCEPT !["tarko_web_ui"] = r.dir]
              /\ gsp' = [pkg |-> "tarko_web_ui", download |-> r.download,
                         out |-> r.out]
              /\ web_app' = [NoApp EXCEPT !.created = TRUE,
                                          !.mounted = r.out.kind = "ok"]
    /\ UNCHANGED <<registry, static_version, build, acq, injectVars, callVars,
                   app, response, release>>

\* GET /health of the tarko_web_ui application: the dictionary of either
\* branch is returned, so the status is 200.
web_health_check ==
    /\ web_app.created
    /\ \E meta_ok \in BOOLEAN, archive_ok \in BOOLEAN,
          fail_at \in 0..Len(LatestMembers) :
          LET r == WebStaticPath(WebDir, meta_ok, archive_ok, fail_at)
          IN  /\ static_dirs' = [static_dirs EXCEPT !["tarko_web_ui"] = r.dir]
              /\ gsp' = [pkg |-> "tarko_web_ui", download |-> r.download,
                         out |-> r.out]
              /\ response' =
                    JsonResponse("tarko_web_ui", "/health", "200",
                       IF r.out.kind = "ok"
                       THEN [Json("healthy", <<>>, "") EXCEPT
                               !.static_exists = r.dir.exists,
                               !.index_exists = INDEX_HTML \in FilePaths(r.dir)]
                       ELSE Json("unhealthy", <<r.out.msg>>, DOWNLOAD_SUGGESTION))
    /\ UNCHANGED <<registry, static_version, build, acq, injectVars, callVars,
                   app, web_app, release>>

(***************************************************************************)
(* scripts/auto_release.py: the release workflow, one step per function    *)
(* that main() calls.                                                      *)
(***************************************************************************)
\* The --npm-version arguments of the runs: none, or a version.
ReleaseVersionArgs == {NoVersion, "1.0.0", "2.0.0"}

\* The steps inside main()'s inner try block, in the order of the code.
ReleaseSteps ==
    <<"clean", "update_versions", "build_assets", "tests", "package",
      "commit_and_tag", "push", "publish">>

\* No run yet.  branch is the branch checked out, release_branch whether
\* release/<version> was created, worktree whether files of the checkout
\* were changed, completed the steps that returned, failed the step that
\* raised or exited, checkout_back whether the checkout of the original
\* branch was attempted, exit the exit status ("" while running).
ReleaseIdle ==
    [pc |-> "idle", dry_run |-> FALSE, skip_tests |-> FALSE,
     skip_publish |-> FALSE, npm_arg |-> NoVersion, npm_version |-> "",
     branch |-> "original", release_branch |-> FALSE, worktree |-> FALSE,
     tag |-> FALSE, pushed |-> FALSE, published |-> FALSE,
     checkout_back |-> FALSE, completed |-> {}, failed |-> "", exit |-> ""]

\* The run ends outside the inner try block: sys.exit(1) of run_cmd, an
\* exception caught by main()'s except clauses, or a return.
ReleaseExit(r, step, code) ==
    [r EXCEPT !.pc = "done", !.failed = step, !.exit = code]

\* A faulty variant: a failing step ends the run at once.
ReleaseFailExits(r, step) ==
    [r EXCEPT !.pc = "done", !.failed = step, !.exit = "1"]

\* A step inside the inner try block raises or calls sys.exit(1): the
\* finally clause runs before the run ends.
ReleaseFail(r, step) == [r EXCEPT !.pc = "finally", !.failed = step]

\* A step inside the inner try block returns.
ReleaseStepDone(r, step, next) ==
    [r EXCEPT !.pc = next, !.completed = @ \cup {step}]

\* main() parses the arguments and calls get_current_branch().
release_main ==
    /\ release.pc = "idle"
    /\ \E dry_run \in BOOLEAN, skip_tests \in BOOLEAN, skip_publish \in BOOLEAN,
          npm_arg \in ReleaseVersionArgs, ok \in BOOLEAN :
          LET r == [release EXCEPT !.dry_run = dry_run,
                                   !.skip_tests = skip_tests,
                                   !.skip_publish = skip_publish,
                                   !.npm_arg = npm_arg]
          IN  release' = IF ok THEN [r EXCEPT !.pc = "versions"]
                         ELSE ReleaseExit(r, "get_current_branch", "1")
    /\ UNCHANGED <<injectVars, fsVars, callVars, app, web_app, response>>

\* args.npm_version or get_npm_latest_version(); the current version is
\* read from pyproject.toml and its patch number is raised.
release_determine_versions ==
    /\ release.pc = "versions"
    /\ \E fetch_ok \in BOOLEAN, pyproject_ok \in BOOLEAN :
          release' =
             IF release.npm_arg = NoVersion /\ (~fetch_ok \/ registry.latest = NoTag)
             THEN ReleaseExit(release, "get_npm_latest_version", "1")
             ELSE IF ~pyproject_ok
             THEN ReleaseExit(release, "get_current_python_version", "1")
             ELSE [release EXCEPT !.pc = "consistency",
                                  !.npm_version =
                                      IF release.npm_arg = NoVersion
                                      THEN registry.latest
                                      ELSE release.npm_arg]
    /\ UNCHANGED <<injectVars, fsVars, callVars, app, web_app, response>>

\* ensure_versions_consistent: the major.minor parts agree, or the user is
\* asked and answers; anything but "y" ends the run.
release_ensure_versions_consistent ==
    /\ release.pc = "consistency"
    /\ \E consistent \in BOOLEAN, answer_y \in BOOLEAN :
          release' = IF consistent \/ answer_y
                     THEN [release EXCEPT !.pc = "plan"]
                     ELSE ReleaseExit(release, "ensure_versions_consistent", "1")
    /\ UNCHANGED <<injectVars, fsVars, callVars, app, web_app, response>>

\* The plan is printed; --dry-run returns here; otherwise the user is
\* asked and anything but "y" returns.
release_plan ==
    /\ release.pc = "plan"
    /\ \E answer_y \in BOOLEAN :
          release' = IF release.dry_run \/ ~answer_y
                     THEN ReleaseExit(release, "", "0")
                     ELSE [release EXCEPT !.pc = "create_release_branch"]
    /\ UNCHANGED <<injectVars, fsVars, callVars, app, web_app, response>>

\* create_release_branch: git checkout main, git pull origin main,
\* git checkout -b release/<version>; it is called before the inner try
\* block, so a failing command ends the run where it is.
create_release_branch ==
    /\ release.pc = "create_release_branch"
    /\ \E failing \in {"", "checkout main", "pull", "checkout -b"} :
          release' =
             IF failing = ""
             THEN [release EXCEPT !.pc = "clean", !.branch = "release",
                                  !.release_branch = TRUE]
             ELSE ReleaseExit([release EXCEPT !.branch =
                                  IF failing = "checkout main" THEN @ ELSE "main"],
                              "create_release_branch", "1")
    /\ UNCHANGED <<injectVars, fsVars, callVars, app, web_app, response>>

\* clean_old_artifacts: rm -rf of the build artifacts, tarko_agent_ui/static
\* and _static_version.py among them, with check=False: a failing command
\* is passed over.
clean_old_artifacts ==
    /\ release.pc = "clean"
    /\ \E rm_ok \in BOOLEAN :
          /\ static_dirs' = IF rm_ok
                            THEN [static_dirs EXCEPT !["tarko_agent_ui"] = NoDir]
                            ELSE static_dirs
          /\ static_version' = IF rm_ok THEN NoRecord ELSE static_version
          /\ release' = [ReleaseStepDone(release, "clean", "update_versions")
                           EXCEPT !.worktree = TRUE]
    /\ UNCHANGED <<registry, build, gsp, acq, injectVars, callVars, app, web_app,
                   response>>

\* update_version_files: pyproject.toml and __init__.py are rewritten.
update_version_files ==
    /\ release.pc = "update_versions"
    /\ \E ok \in BOOLEAN :
          release' = [(IF ok
                       THEN ReleaseStepDone(release, "update_versions", "build_assets")
                       ELSE ReleaseFail(release, "update_versions"))
                        EXCEPT !.worktree = TRUE]
    /\ UNCHANGED <<injectVars, fsVars, callVars, app, web_app, response>>

\* build_static_assets: scripts/build_assets.py --version=<npm version> is
\* run; then the directory and its index.html must be there.
build_static_assets ==
    /\ release.pc = "build_assets"
    /\ \E meta_ok \in BOOLEAN, archive_ok \in BOOLEAN :
          LET r == download_npm_package(release.npm_version, UiDir, meta_ok,
                                        archive_ok)
          IN  /\ static_dirs' = [static_dirs EXCEPT !["tarko_agent_ui"] = r.dir]
              /\ static_version' =
                    IF r.out.kind = "ok" THEN r.out.value ELSE static_version
              /\ build' = [version |-> release.npm_version, out |-> r.out]
              /\ release' =
                    IF r.out.kind = "ok" /\ r.dir.exists
                       /\ INDEX_HTML \in FilePaths(r.dir)
                    THEN ReleaseStepDone(release, "build_assets",
                                         IF release.skip_tests THEN "package"
                                         ELSE "tests")
                    ELSE ReleaseFail(release, "build_assets")
    /\ UNCHANGED <<registry, gsp, acq, injectVars, callVars, app, web_app,
                   response>>

\* run_tests: uv run pytest; reached only without --skip-tests.
run_tests ==
    /\ release.pc = "tests"
    /\ \E ok \in BOOLEAN :
          release' = IF ok THEN ReleaseStepDone(release, "tests", "package")
                     ELSE ReleaseFail(release, "tests")
    /\ UNCHANGED <<injectVars, fsVars, callVars, app, web_app, response>>

\* build_and_verify_package: mkdir -p dist, uv build, dist/ is not empty.
build_and_verify_package ==
    /\ release.pc = "package"
    /\ \E ok \in BOOLEAN :
          release' = IF ok THEN ReleaseStepDone(release, "package", "commit_and_tag")
                     ELSE ReleaseFail(release, "package")
    /\ UNCHANGED <<injectVars, fsVars, callVars, app, web_app, response>>

\* commit_and_tag: git add, git commit, git tag v<version>.
commit_and_tag ==
    /\ release.pc = "commit_and_tag"
    /\ \E failing \in {"", "add", "commit", "tag"} :
          release' = IF failing = ""
                     THEN [ReleaseStepDone(release, "commit_and_tag", "push")
                             EXCEPT !.tag = TRUE]
                     ELSE ReleaseFail(release, "commit_and_tag")
    /\ UNCHANGED <<injectVars, fsVars, callVars, app, web_app, response>>

\* push_release: git push origin release/<version>, git push origin --tags.
push_release ==
    /\ release.pc = "push"
    /\ \E failing \in {"", "push branch", "push tags"} :
          release' =
             IF failing = ""
             THEN [ReleaseStepDone(release, "push",
                                   IF release.skip_publish THEN "finally"
                                   ELSE "publish")
                     EXCEPT !.pushed = TRUE]
             ELSE [ReleaseFail(release, "push")
                     EXCEPT !.pushed = failing = "push tags"]
    /\ UNCHANGED <<injectVars, fsVars, callVars, app, web_app, response>>

\* publish_package: uv publish; reached only without --skip-publish.
publish_package ==
    /\ release.pc = "publish"
    /\ \E ok \in BOOLEAN :
          release' = IF ok
                     THEN [ReleaseStepDone(release, "publish", "finally")
                             EXCEPT !.published = TRUE]
                     ELSE ReleaseFail(release, "publish")
    /\ UNCHANGED <<injectVars, fsVars, callVars, app, web_app, response>>

\* The finally clause: switch_back_to_original_branch runs
\* git checkout <original branch>, whose failure ends the run with 1.
switch_back_to_original_branch ==
    /\ release.pc = "finally"
    /\ \E ok \in BOOLEAN :
          release' = [release EXCEPT
                        !.pc = "done",
                        !.checkout_back = TRUE,
                        !.branch = IF ok THEN "original" ELSE @,
                        !.exit = IF ok /\ release.failed = "" THEN "0" ELSE "1"]
    /\ UNCHANGED <<injectVars, fsVars, callVars, app, web_app, response>>

(***************************************************************************)
(* The specifications.                                                     *)
(***************************************************************************)
\* No call of inject_env_variables.
InjectIdle ==
    /\ html = <<>>
    /\ base_url = <<>>
    /\ ui_config = NoConfig
    /\ result = NoResult

\* The arguments of the call are drawn from the inputs; nothing is returned
\* yet.
InitInject ==
    /\ \E args \in InjectInputs :
          /\ html = args[1]
          /\ base_url = args[2]
          /\ ui_config = args[3]
    /\ result = NoResult

\* The call: the arguments are left as they are, the outcome is recorded.
InjectCall ==
    /\ result = NoResult
    /\ result' = inject_env_variables(html, base_url, ui_config)
    /\ UNCHANGED <<html, base_url, ui_config, fsVars, callVars, toolVars>>

\* A fresh checkout: no static directories, no version record; or an
\* installed tarko_agent_ui that was built with the assets of 1.0.0.
InitFs ==
    /\ registry \in Registries
    /\ \E built \in BOOLEAN :
          /\ static_dirs =
                [pkg \in Packages |->
                    IF built /\ pkg = "tarko_agent_ui"
                    THEN ExtractAll(EmptyDir, Tarball("1.0.0").members, "1.0.0")
                    ELSE NoDir]
          /\ static_version = IF built THEN "1.0.0" ELSE NoRecord
    /\ build = [version |-> NoVersion, out |-> NoOutcome]
    /\ gsp = NoStaticPathCall
    /\ acq = AcqIdle
    /\ sbx = SbxIdle
    /\ loaded = NotImported
    /\ version_info = NoVersionInfo
    /\ ui = UiIdle
    /\ app = NoApp
    /\ web_app = NoApp
    /\ response = NoResponse
    /\ release = ReleaseIdle

\* Injection: one call of inject_env_variables per behaviour, nothing on disk.
InitInjectSpec ==
    /\ InitInject
    /\ registry = CHOOSE r \in Registries : r.latest = "1.2.3"
    /\ static_dirs = [pkg \in Packages |-> NoDir]
    /\ static_version = NoRecord
    /\ build = [version |-> NoVersion, out |-> NoOutcome]
    /\ gsp = NoStaticPathCall
    /\ acq = AcqIdle
    /\ sbx = SbxIdle
    /\ loaded = NotImported
    /\ version_info = NoVersionInfo
    /\ ui = UiIdle
    /\ app = NoApp
    /\ web_app = NoApp
    /\ response = NoResponse
    /\ release = ReleaseIdle

NextInject == InjectCall

SpecInject == InitInjectSpec /\ [][NextInject]_vars

\* The tarko_agent_ui package: the build script and the fail-fast facade.
Init == InjectIdle /\ InitFs

Next == build_assets \/ get_static_path

Spec == Init /\ [][Next]_vars

\* The tarko_agent_ui package: the build script, processes importing the
\* package, and version reporting.
NextVersion == build_assets \/ import_tarko_agent_ui \/ get_static_version

SpecVersion == Init /\ [][NextVersion]_vars

\* The tarko_agent_ui package: the build script and get_agent_ui_html calls
\* of a serving process.
NextUI ==
    \/ build_assets
    \/ get_agent_ui_html_call
    \/ get_agent_ui_html_static_path
    \/ get_agent_ui_html_check_index
    \/ get_agent_ui_html_read_inject

SpecUI == Init /\ [][NextUI]_vars

\* The tarko_web_ui package: download_static_assets.
NextWebUI ==
    \/ AcqStart
    \/ AcqFetchMetadata
    \/ AcqResolveVersion
    \/ AcqRmtree
    \/ AcqMkdir
    \/ AcqMktemp
    \/ AcqDownload
    \/ AcqOpenTar
    \/ AcqExtractMember
    \/ AcqFinish

SpecWebUI == Init /\ [][NextWebUI]_vars

\* The tarko_web_ui package with its auto-provisioning get_static_path, the
\* registry moving on between calls.
NextAuto == web_get_static_path \/ registry_update

SpecAuto == Init /\ [][NextAuto]_vars

\* Two processes on tarko_web_ui/static: one runs download_static_assets
\* step by step, the other calls get_static_path, which may download as
\* well; nothing in the code orders the two.
NextConcurrent == NextWebUI \/ web_get_static_path

SpecConcurrent == Init /\ [][NextConcurrent]_vars

\* The example application, with the build script changing the assets
\* under it.
NextServer ==
    \/ build_assets
    \/ example_create_app
    \/ example_root
    \/ example_health

SpecServer == Init /\ [][NextServer]_vars

\* The tarko_web_ui application, with the registry changing.
NextWebServer ==
    \/ web_create_app
    \/ web_health_check
    \/ registry_update

SpecWebServer == Init /\ [][NextWebServer]_vars

\* One run of scripts/auto_release.py.
NextRelease ==
    \/ release_main
    \/ release_determine_versions
    \/ release_ensure_versions_consistent
    \/ release_plan
    \/ create_release_branch
    \/ clean_old_artifacts
    \/ update_version_files
    \/ build_static_assets
    \/ run_tests
    \/ build_and_verify_package
    \/ commit_and_tag
    \/ push_release
    \/ publish_package
    \/ switch_back_to_original_branch

SpecRelease == Init /\ [][NextRelease]_vars

\* The agent_sandbox package: its two acquisitions, its get_static_path,
\* and the registry moving on between them.
NextSandbox ==
    \/ sandbox_download_static_assets
    \/ post_install_download_npm_package
    \/ sandbox_get_static_path
    \/ registry_update

SpecSandbox == Init /\ [][NextSandbox]_vars

(***************************************************************************)
(* What the claims about injection speak of.                               *)
(***************************************************************************)
Called == result.kind # "none"

\* h[i..e] is a head opening tag: "<head" in any letter case, then attribute
\* text without ">", then ">".
IsHeadTag(h, i, e) ==
    /\ 1 <= i /\ i + 5 <= e /\ e <= Len(h)
    /\ ToLower(h[i]) = "<" /\ ToLower(h[i + 1]) = "h" /\ ToLower(h[i + 2]) = "e"
    /\ ToLower(h[i + 3]) = "a" /\ ToLower(h[i + 4]) = "d"
    /\ h[e] = GT
    /\ \A k \in (i + 5)..(e - 1) : h[k] # GT

\* The places where a head opening tag may start.
TagStarts(h) == {i \in 1..Len(h) : h[i] = LT}

HasHeadTag(h) == \E i \in TagStarts(h), e \in 1..Len(h) : IsHeadTag(h, i, e)

\* h[i..e] is the first head opening tag of h.
IsFirstHeadTag(h, i, e) ==
    /\ IsHeadTag(h, i, e)
    /\ \A j \in {k \in TagStarts(h) : k < i}, f \in 1..Len(h) : ~IsHeadTag(h, j, f)

Count(s, x) == Cardinality({k \in 1..Len(s) : s[k] = x})

\* The first index of x in s at or after i; 0 when there is none.
IndexFrom(s, x, i) ==
    IF \E k \in i..Len(s) : s[k] = x
    THEN CHOOSE k \in i..Len(s) : s[k] = x /\ \A j \in i..(k - 1) : s[j] # x
    ELSE 0

\* The text the returned html holds between token tok and the STMT_END
\* after it.
LiteralAfter(r, tok) ==
    SubSeq(r, IndexFrom(r, tok, 1) + 1,
           IndexFrom(r, STMT_END, IndexFrom(r, tok, 1)) - 1)

\* The injected block of the returned html: from SCRIPT_OPEN to SCRIPT_CLOSE.
InjectedBlock(r) ==
    SubSeq(r, IndexFrom(r, SCRIPT_OPEN, 1), IndexFrom(r, SCRIPT_CLOSE, 1))

(***************************************************************************)
(* Claims about injection, checked under SpecInject.                       *)
(***************************************************************************)

\* C1: for html that contains a head opening tag, inject returns the input
\* with exactly one script block inserted immediately after the closing ">"
\* of the first head tag; every character before and after the insertion
\* point is the input's, in order, so deleting the block gives the input back.
C1_BlockSplicedAfterHeadTag ==
    (Called /\ HasHeadTag(html)) =>
        /\ result.kind = "ok"
        /\ \A i \in TagStarts(html), e \in 1..Len(html) :
             IsFirstHeadTag(html, i, e) =>
                LET r == result.html
                    n == Len(r) - Len(html)
                IN  /\ n > 0
                    /\ SubSeq(r, 1, e) = SubSeq(html, 1, e)
                    /\ SubSeq(r, e + n + 1, Len(r)) = SubSeq(html, e + 1, Len(html))
                    /\ r[e + 1] = SCRIPT_OPEN
                    /\ r[e + n] = SCRIPT_CLOSE
                    /\ Count(r, SCRIPT_OPEN) = 1
                    /\ Count(r, SCRIPT_CLOSE) = 1
                    /\ SubSeq(r, 1, e) \o SubSeq(r, e + n + 1, Len(r)) = html

\* C1 witness: a call on html with text before the head tag and after it.
C1_Witness ==
    /\ result.kind = "ok"
    /\ \E i \in 2..Len(html), e \in 1..(Len(html) - 1) : IsFirstHeadTag(html, i, e)

\* C2: for html without a head opening tag inject raises ValueError "HTML
\* content must contain a valid <head> section" and returns no html,
\* whatever base_url and ui_config are.
C2_NoHeadTagRaises ==
    (Called /\ ~HasHeadTag(html)) =>
        /\ result.kind = "error"
        /\ result.exc = "ValueError"
        /\ result.msg = "HTML content must contain a valid <head> section"
        /\ result.html = <<>>

\* C2 witness: a call that raised on non-empty html holding an unclosed
\* "<head" and other tags.
C2_Witness ==
    /\ result.kind = "error"
    /\ ~HasHeadTag(html)
    /\ \E i \in 1..Len(html) : HeadLiteralAt(html, i)
    /\ \E i \in 1..Len(html) : html[i] = GT

\* C3: the insertion point is found case-insensitively and with or without
\* attributes: whatever the letter case and the attribute text of the first
\* head tag, injection succeeds and the script block starts directly after
\* that tag's ">", before any other content of the head.
C3_CaseInsensitiveWithAttributes ==
    Called =>
        \A i \in TagStarts(html), e \in 1..Len(html) :
            IsFirstHeadTag(html, i, e) =>
                /\ result.kind = "ok"
                /\ SubSeq(result.html, i, e) = SubSeq(html, i, e)
                /\ result.html[e + 1] = SCRIPT_OPEN
                /\ IndexFrom(result.html, SCRIPT_OPEN, 1) = e + 1

\* C3 witness: the first head tag has an upper-case letter and attribute
\* text, and head content follows it.
C3_Witness ==
    /\ result.kind = "ok"
    /\ \E i \in 1..Len(html), e \in 1..(Len(html) - 1) :
          /\ IsFirstHeadTag(html, i, e)
          /\ e > i + 5
          /\ html[i + 1] = "H"

\* C4: the script block assigns both globals, each once: AGENT_BASE_URL the
\* JSON string literal of base_url, AGENT_WEB_UI_CONFIG the JSON
\* serialization of ui_config, which is "{}" (never null, never missing)
\* when ui_config is absent.
C4_BothGlobalsAssigned ==
    result.kind = "ok" =>
        LET r == result.html IN
        /\ Count(r, ASSIGN_BASE_URL) = 1
        /\ Count(r, ASSIGN_CONFIG) = 1
        /\ IndexFrom(r, SCRIPT_OPEN, 1) < IndexFrom(r, ASSIGN_BASE_URL, 1)
        /\ IndexFrom(r, ASSIGN_BASE_URL, 1) < IndexFrom(r, ASSIGN_CONFIG, 1)
        /\ IndexFrom(r, ASSIGN_CONFIG, 1) < IndexFrom(r, SCRIPT_CLOSE, 1)
        /\ LiteralAfter(r, ASSIGN_BASE_URL) = DumpsString(base_url)
        /\ Head(LiteralAfter(r, ASSIGN_BASE_URL)) = QUOTE
        /\ ui_config # NoConfig => LiteralAfter(r, ASSIGN_CONFIG) = Dumps(ui_config)
        /\ ui_config = NoConfig => LiteralAfter(r, ASSIGN_CONFIG) = <<"{", "}">>

\* C4 witness: a call without ui_config that returned html.
C4_Witness ==
    /\ result.kind = "ok"
    /\ ui_config = NoConfig
    /\ Len(base_url) > 0

\* Some string of the value (a string value, an object key, an array item
\* or member value, one level deep) holds a character of cs.
HasCharOf(v, cs) ==
    /\ v.kind = "obj"
    /\ \E m \in 1..Len(v.val) :
          \/ \E k \in 1..Len(v.val[m][1]) : v.val[m][1][k] \in cs
          \/ /\ v.val[m][2].kind = "str"
             /\ \E k \in 1..Len(v.val[m][2].val) : v.val[m][2].val[k] \in cs

\* C5: for a ui_config whose strings hold double quotes, backslashes,
\* newlines, "<" or ">", the config literal embedded by inject parses back,
\* with a JSON parser, to a value equal to ui_config.
C5_ConfigRoundTrips ==
    (result.kind = "ok" /\ HasCharOf(ui_config, {QUOTE, BSL, NL, LT, GT})) =>
        /\ Loads(LiteralAfter(result.html, ASSIGN_CONFIG)).ok
        /\ Loads(LiteralAfter(result.html, ASSIGN_CONFIG)).val = ui_config

\* C5 witness: a returned html whose config has a string with a backslash
\* followed by the letter n.
C5_Witness ==
    /\ result.kind = "ok"
    /\ ui_config = JObj(<< <<TITLE, JStr(<<BSL, "n">>)>> >>)

\* C6 (as claimed): the serialization escapes angle brackets, so the
\* characters "<" and ">" of a ui_config or base_url string never occur
\* unescaped inside the injected block.
C6_AngleBracketsEscaped ==
    result.kind = "ok" =>
        \A k \in 1..Len(InjectedBlock(result.html)) :
            InjectedBlock(result.html)[k] \notin {LT, GT}

(***************************************************************************)
(* Claims about the fail-fast get_static_path, checked under Spec.         *)
(***************************************************************************)

\* C8: fail-fast get_static_path raises FileNotFoundError in both incomplete
\* states, "Static assets not found" when the static directory does not
\* exist and "index.html not found" when it exists without index.html, and
\* returns the directory's absolute path only when both exist.
C8_FailFastRaisesWhenIncomplete ==
    [][get_static_path =>
        LET d == static_dirs["tarko_agent_ui"]
            o == gsp'.out
        IN  /\ ~d.exists =>
                  /\ o.kind = "error"
                  /\ o.exc = "FileNotFoundError"
                  /\ o.msg = "Static assets not found"
            /\ (d.exists /\ INDEX_HTML \notin FilePaths(d)) =>
                  /\ o.kind = "error"
                  /\ o.exc = "FileNotFoundError"
                  /\ o.msg = "index.html not found"
            /\ o.kind = "ok" <=> (d.exists /\ INDEX_HTML \in FilePaths(d))
            /\ o.kind = "ok" => o.value = <<"tarko_agent_ui", "static">>
    ]_vars

\* C8 witness: the call raised "index.html not found" on a directory that
\* exists without index.html.
C8_Witness ==
    /\ gsp.out.msg = "index.html not found"
    /\ static_dirs["tarko_agent_ui"].exists
    /\ INDEX_HTML \notin FilePaths(static_dirs["tarko_agent_ui"])

\* C9: fail-fast get_static_path changes nothing: whatever its outcome, the
\* static directories' files and the version record are the same after the
\* call as before, and no acquisition (no registry or archive fetch) is run.
C9_FailFastChangesNothing ==
    [][get_static_path =>
        /\ static_dirs' = static_dirs
        /\ static_version' = static_version
        /\ registry' = registry
        /\ build' = build
        /\ acq' = acq
    ]_vars

\* C9 witness: a call that returned the path of assets a build run left,
\* with their version record.
C9_Witness ==
    /\ gsp.out.kind = "ok"
    /\ build.out.kind = "ok"
    /\ static_version = "1.2.3"
    /\ \E f \in static_dirs["tarko_agent_ui"].files : f.ver = "1.2.3"

\* C14: once a version record exists it holds a published version string,
\* and after a successful acquisition it is the version that acquisition
\* resolved, a key of the registry's versions map and never the tag name
\* "latest", whether the version was omitted or given.
C14_RecordedVersionConcrete ==
    /\ static_version # NoRecord =>
          static_version \in Versions /\ static_version # "latest"
    /\ build.out.kind = "ok" =>
          /\ static_version = build.out.value
          /\ static_version \in registry.versions
          /\ static_version # "latest"
          /\ static_version =
                (IF build.version = NoVersion THEN registry.latest
                                              ELSE build.version)

\* C14 witness: the build ran without a version and recorded the version
\* the latest tag names.
C14_Witness ==
    /\ build.version = NoVersion
    /\ build.out.kind = "ok"
    /\ registry.latest = "2.0.0"
    /\ static_version = "2.0.0"

(***************************************************************************)
(* Claims about download_static_assets, checked under SpecWebUI.           *)
(***************************************************************************)
AcqSucceeded == acq.pc = "done" /\ acq.out.kind = "ok"

AcqUnknownVersion ==
    /\ acq.pc \notin {"idle", "fetch_meta", "resolve"}
    /\ acq.out.msg # "registry"
    /\ ~(acq.version = NoVersion /\ registry.latest = NoTag)
    /\ TargetVersion(acq.version, registry) \notin registry.versions

\* C11: acquiring a version that is not a key of the registry's versions
\* map ends with ValueError "Version <v> not found" naming that version and
\* listing every key of the map; no archive is fetched, no temporary file
\* is made.
C11_UnknownVersionListsAvailable ==
    AcqUnknownVersion =>
        /\ acq.pc = "done"
        /\ acq.out.kind = "error"
        /\ acq.out.exc = "ValueError"
        /\ acq.out.msg = "Version not found"
        /\ acq.out.value = TargetVersion(acq.version, registry)
        /\ acq.out.available = registry.versions
        /\ acq.archive_fetches = 0
        /\ ~acq.tmp_file

\* C11 witness: version 9.9.9 was asked of a registry that publishes four
\* other versions, and the call ended with the error listing them.
C11_Witness ==
    /\ AcqUnknownVersion
    /\ acq.version = "9.9.9"
    /\ acq.out.exc = "ValueError"
    /\ Cardinality(acq.out.available) = 4

(***************************************************************************)
(* Claims about the acquisitions into agent_sandbox/static, checked under  *)
(* SpecSandbox.                                                            *)
(***************************************************************************)
\* The last acquisition into agent_sandbox/static went through: nothing was
\* raised and nothing was printed as a warning.
SbxSucceeded == sbx.op # "none" /\ sbx.out.kind = "ok" /\ ~sbx.warned

\* The archive of version v has the entry package/static/index.html.
HasIndexEntry(v) ==
    \E i \in 1..Len(Tarball(v).members) :
        Tarball(v).members[i] = <<"package", "static", "index.html">>

\* The selected entries of the archive of version v: those under
\* package/static/, without that prefix.
SelectedEntries(v) ==
    { StripStaticPrefix(Tarball(v).members[i]) :
        i \in { j \in 1..Len(Tarball(v).members) :
                  /\ StartsWithStaticPrefix(Tarball(v).members[j])
                  /\ ~IsEmptyPath(StripStaticPrefix(Tarball(v).members[j])) } }

\* C12 (as claimed, for the agent_sandbox variants): after a successful
\* acquisition of a version whose archive has package/static/index.html,
\* index.html is at the root of the target directory and a get_static_path
\* call made then succeeds.
C12_IndexAtRootAfterAcquisition ==
    [][ SbxSucceeded /\ HasIndexEntry(sbx.latest_version) =>
          /\ INDEX_HTML \in FilePaths(SandboxDir)
          /\ sandbox_get_static_path => gsp'.out.kind = "ok" ]_vars

\* C13 (as claimed, for the agent_sandbox variants): after a successful
\* acquisition the file set of the target directory is exactly the
\* selected, prefix-stripped entries of the archive just acquired, and no
\* file of an earlier acquisition is left.
C13_DirectoryFullyReplaced ==
    SbxSucceeded =>
        /\ FilePaths(SandboxDir) = SelectedEntries(sbx.latest_version)
        /\ \A f \in SandboxDir.files : f.ver = sbx.latest_version

(***************************************************************************)
(* Claims about version reporting, checked under SpecVersion.              *)
(***************************************************************************)
\* The three fields get_static_version reports for version constants c.
VersionInfo(c) ==
    [version |-> c.version, package |-> c.package, sdk_version |-> SDK_VERSION]

\* C16 (as claimed): every get_static_version call returns the three
\* fields; version is "unknown" and package "@tarko/agent-ui-builder" when
\* the version record is absent, and they equal the recorded constants
\* when it is present.
C16_ReportsRecordOrSentinel ==
    [][ get_static_version =>
          version_info' = VersionInfo(ImportedConstants(static_version)) ]_vars

\* C16 (amended): every get_static_version call returns the three fields,
\* built from the constants bound when the package was imported: "unknown"
\* and "@tarko/agent-ui-builder" when the version record was absent then,
\* the recorded constants when it was present then; a record written or
\* replaced after the import is not reported.
C16_ReportsConstantsBoundAtImport ==
    [][ /\ import_tarko_agent_ui =>
              /\ static_version = NoRecord =>
                    loaded' = [version |-> "unknown", package |-> AGENT_UI_BUILDER]
              /\ static_version # NoRecord =>
                    loaded' = [version |-> static_version,
                               package |-> AGENT_UI_BUILDER]
        /\ get_static_version =>
              /\ version_info' = VersionInfo(loaded)
              /\ version_info'.version \in Versions \cup {"unknown"}
              /\ version_info'.package = AGENT_UI_BUILDER
              /\ version_info'.sdk_version = SDK_VERSION ]_vars

\* C16 witness: the package was imported in a checkout without a version
\* record, the build then recorded 1.2.3, and get_static_version still
\* reported "unknown".
C16_Witness ==
    /\ static_version = "1.2.3"
    /\ loaded.version = "unknown"
    /\ version_info = [version |-> "unknown", package |-> AGENT_UI_BUILDER,
                       sdk_version |-> SDK_VERSION]

(***************************************************************************)
(* Claims about get_agent_ui_html, checked under SpecUI.                   *)
(***************************************************************************)
\* The call ended by raising exception e with message m; no HTML came back.
UiRaised(u, e, m) ==
    /\ u.pc = "done"
    /\ u.out.kind = "error"
    /\ u.out.exc = e
    /\ u.out.msg = m
    /\ u.out.html = <<>>

\* C17: get_agent_ui_html checks in order and reports the first failure:
\* the FileNotFoundError of get_static_path as it is; then, the path
\* resolved, FileNotFoundError "index.html not found in static assets"
\* when the entry file is missing; then, the file read, the ValueError of
\* the injection when it has no head tag; none of the three returns HTML.
C17_FirstFailingPreconditionReported ==
    [][ /\ get_agent_ui_html_static_path =>
              LET o == StaticPathOutcome(UiDir, StaticDirPath("tarko_agent_ui"))
              IN  IF o.kind = "error"
                  THEN UiRaised(ui', "FileNotFoundError", o.msg)
                  ELSE ui'.pc = "check_index" /\ ui'.out = NoResult
        /\ get_agent_ui_html_check_index =>
              IF INDEX_HTML \notin FilePaths(UiDir)
              THEN UiRaised(ui', "FileNotFoundError",
                            "index.html not found in static assets")
              ELSE ui'.pc = "read_text" /\ ui'.out = NoResult
        /\ ( /\ get_agent_ui_html_read_inject
             /\ INDEX_HTML \in FilePaths(UiDir)
             /\ ~HasHeadTag(IndexContent(IndexVer(UiDir))) ) =>
              UiRaised(ui', "ValueError",
                       "HTML content must contain a valid <head> section")
        /\ ui' # ui /\ ui'.pc = "done" /\ ui'.out.kind = "ok" =>
              /\ ui.pc = "read_text"
              /\ INDEX_HTML \in FilePaths(UiDir)
              /\ HasHeadTag(IndexContent(ui'.src)) ]_vars

\* C17 witness: the path was resolved, the build then left the directory
\* without index.html, and the call raised the second error.
C17_Witness ==
    UiRaised(ui, "FileNotFoundError", "index.html not found in static assets")

C15_TempFileRemoved ==
    /\ acq.pc \in {"idle", "done"} => ~acq.tmp_file
    /\ acq.tmp_file => acq.pc \in {"download", "open_tar", "extract"}

\* C15 witness: the archive was fetched into the temporary file, decoding
\* it failed, and the call has ended.
C15_Witness ==
    /\ acq.pc = "done"
    /\ acq.out.exc = "ReadError"
    /\ acq.archive_fetches = 1
    /\ ~acq.tmp_file

\* The call returned and the archive it decoded has no entry under
\* package/static/.
AcqSucceededWithoutStaticEntries ==
    AcqSucceeded /\ SelectedEntries(acq.target_version) = {}

C20_OneFetchEachNoRetry ==
    /\ acq.meta_fetches <= 1
    /\ acq.archive_fetches <= 1
    /\ acq.archive_fetches = 1 =>
          /\ acq.meta_fetches = 1
          /\ acq.out.msg # "registry"
          /\ acq.target_version \in registry.versions
    /\ acq.pc \in {"resolve", "rmtree", "mkdir", "mktemp", "download"} =>
          acq.meta_fetches = 1 /\ acq.archive_fetches = 0
    /\ acq.out.exc = "URLError" =>
          /\ acq.pc = "done"
          /\ acq.out.kind = "error"
          /\ acq.out.msg = "registry" =>
                acq.meta_fetches = 1 /\ acq.archive_fetches = 0
          /\ acq.out.msg = "tarball" =>
                acq.meta_fetches = 1 /\ acq.archive_fetches = 1

\* C20 witness: the metadata arrived, the archive fetch failed, and the
\* call ended with that error after one fetch of each.
C20_Witness ==
    /\ acq.pc = "done"
    /\ acq.out.exc = "URLError"
    /\ acq.out.msg = "tarball"
    /\ acq.meta_fetches = 1
    /\ acq.archive_fetches = 1

\* The call failed after the old directory was deleted: the archive fetch,
\* tarfile.open or an extraction raised.
AcqInterrupted ==
    /\ acq.pc = "done"
    /\ acq.out.kind = "error"
    /\ acq.archive_fetches = 1

\* C22 (as claimed): whenever an acquisition that failed after the old
\* directory was deleted leaves the target directory empty or only partly
\* populated, the fail-fast existence check on it raises not-found.
C22_InterruptedAcquisitionDetected ==
    AcqInterrupted /\ FilePaths(WebDir) # SelectedEntries(acq.target_version) =>
        StaticPathOutcome(WebDir, StaticDirPath("tarko_web_ui")).kind = "error"

\* The call failed before anything was resolved: at the metadata fetch, at
\* the lookup of the latest tag, or with version-not-found.
AcqFailedEarly ==
    /\ acq.pc = "done"
    /\ acq.out.msg \in {"registry", "dist-tags", "Version not found"}

\* C23: the directories change only in the steps from rmtree on, which are
\* reached only with the metadata fetched and the target version found in
\* the versions map; so a call that fails at the metadata fetch, at the
\* latest-tag lookup or with version-not-found has changed no directory
\* and no file.
C23_ValidatesBeforeDestroying ==
    [][ /\ static_dirs' # static_dirs =>
              /\ acq.pc \in {"rmtree", "mkdir", "extract"}
              /\ acq.meta_fetches = 1
              /\ acq.out = NoOutcome
              /\ acq.target_version = TargetVersion(acq.version, registry)
              /\ acq.target_version \in registry.versions
        /\ AcqFailedEarly' /\ acq' # acq =>
              /\ acq.pc \in {"fetch_meta", "resolve"}
              /\ static_dirs' = static_dirs
              /\ acq'.archive_fetches = 0 ]_vars

\* C23 witness: assets were there, the next call asked for an unpublished
\* version and failed, and the assets are still there.
C23_Witness ==
    /\ AcqFailedEarly
    /\ acq.out.msg = "Version not found"
    /\ FilePaths(WebDir) = SelectedEntries("1.0.0")
    /\ \A f \in WebDir.files : f.ver = "1.0.0"

\* The call ended after it fetched an archive that is no gzip-compressed
\* tar.
AcqFetchedCorruptArchive ==
    /\ acq.pc = "done"
    /\ acq.archive_fetches = 1
    /\ acq.out.msg # "tarball"
    /\ Tarball(acq.target_version).corrupt

\* C28 (as claimed): a corrupt archive does not make the call fail: it
\* completes with zero files extracted; and no error raised inside the
\* acquisition is swallowed.
C28_CorruptArchiveCompletes ==
    /\ AcqFetchedCorruptArchive =>
          /\ acq.out.kind = "ok"
          /\ WebDir = EmptyDir
    /\ AcqSucceeded =>
          acq.meta_fetches = 1 /\ acq.archive_fetches = 1

\* C28 (amended): a corrupt archive makes the call fail with the decoding
\* error of tarfile.open, raised again to the caller, with the directory
\* left existing and empty; and no error is swallowed: a call that
\* returned has fetched both, decoded the archive and extracted every
\* selected member.
C28_CorruptArchiveRaises ==
    /\ AcqFetchedCorruptArchive =>
          /\ acq.out.kind = "error"
          /\ acq.out.exc = "ReadError"
          /\ WebDir = EmptyDir
          /\ StaticPathOutcome(WebDir, StaticDirPath("tarko_web_ui")).kind = "error"
    /\ AcqSucceeded =>
          /\ acq.meta_fetches = 1
          /\ acq.archive_fetches = 1
          /\ ~Tarball(acq.target_version).corrupt
          /\ acq.idx = Len(Tarball(acq.target_version).members) + 1
          /\ acq.extracted_count = Cardinality(SelectedEntries(acq.target_version))
          /\ FilePaths(WebDir) = SelectedEntries(acq.target_version)

\* C28 witness: 1.1.0, whose archive is corrupt, was asked for; the call
\* raised ReadError and the directory is empty.
C28_Witness ==
    /\ AcqFetchedCorruptArchive
    /\ acq.version = "1.1.0"
    /\ acq.out.exc = "ReadError"
    /\ WebDir = EmptyDir

(***************************************************************************)
(* Claims about the auto-provisioning get_static_path, checked under       *)
(* SpecAuto, and about every get_static_path.                              *)
(***************************************************************************)
\* C24 (as claimed): a tarko_web_ui.get_static_path call triggers an
\* acquisition exactly when the directory or its index.html is missing;
\* after a call whose acquisition succeeded the next call triggers none;
\* and a failed acquisition is reported as FileNotFoundError.
C24_AutoDownloadOnce ==
    [][ web_get_static_path =>
          /\ gsp'.download # NoOutcome <=> AssetsMissing(WebDir)
          /\ gsp.pkg = "tarko_web_ui" /\ gsp.download.kind = "ok" =>
                gsp'.download = NoOutcome
          /\ gsp'.download.kind = "error" =>
                gsp'.out.kind = "error" /\ gsp'.out.exc = "FileNotFoundError" ]_vars

\* C25 (as claimed, for agent_sandbox): whenever get_static_path returns a
\* path, that directory exists and holds index.html at that moment.
C25_ReturnedPathHasIndex ==
    [][ sandbox_get_static_path /\ gsp'.out.kind = "ok" =>
          /\ SandboxDir.exists
          /\ INDEX_HTML \in FilePaths(SandboxDir) ]_vars

\* C27 (as claimed, for agent_sandbox.download_static_assets): a successful
\* extraction writes exactly the entries under package/static/ whose path
\* without that prefix is not empty, each at its path without the prefix.
C27_WritesSelectedAtStrippedPath ==
    [][ sandbox_download_static_assets /\ sbx'.out.kind = "ok" =>
          FilePaths(static_dirs'["agent_sandbox"]) =
              SelectedEntries(sbx'.latest_version) ]_vars

(***************************************************************************)
(* Claims about concurrent use of tarko_web_ui/static, checked under       *)
(* SpecConcurrent.                                                         *)
(***************************************************************************)
\* C26: acquisition is not atomic and nothing locks it.  The step that
\* removes a directory holding index.html leaves, as a state of its own,
\* a running acquisition with the assets missing; and in every state, a
\* running acquisition's included, a get_static_path call of another
\* process can be taken, which downloads itself when it finds the assets
\* missing.
C26_AcquisitionNotAtomic ==
    /\ [][ AcqRmtree /\ ~AssetsMissing(WebDir) =>
             AssetsMissing(static_dirs'["tarko_web_ui"]) /\ acq'.pc = "mkdir" ]_vars
    /\ [](ENABLED web_get_static_path)

\* Reached: two acquisitions that both ended without error, the step-wise
\* one and the one of a get_static_path call taken meanwhile, left a
\* directory with files of two archives, which is neither archive's
\* selected entries.
C26_Witness ==
    /\ AcqSucceeded
    /\ gsp.pkg = "tarko_web_ui"
    /\ gsp.download.kind = "ok"
    /\ \E f, g \in WebDir.files : f.ver # g.ver
    /\ \A v \in registry.versions : FilePaths(WebDir) # SelectedEntries(v)

(***************************************************************************)
(* Claims about the HTTP applications, checked under SpecServer.           *)
(***************************************************************************)
\* part occurs in text.
OccursIn(part, text) ==
    \E i \in 1..(Len(text) - Len(part) + 1) :
        SubSeq(text, i, i + Len(part) - 1) = part

C29_CreateAppNeverFails ==
    /\ [][ /\ example_create_app =>
                /\ app'.created
                /\ app'.error = ""
                /\ app'.mounted <=>
                      StaticPathOutcome(UiDir, StaticDirPath("tarko_agent_ui")).kind
                          = "ok"
           /\ example_health =>
                /\ response'.status_code = "200"
                /\ response'.json.status = "ok" ]_vars
    /\ [](~app.created => ENABLED example_create_app)
    /\ [](app.created => ENABLED example_health)

\* Reached: an application created without assets, so without the /static
\* mount, answered its health route with 200 after the assets were built.
C29_Witness ==
    /\ app.created
    /\ ~app.mounted
    /\ StaticPathOutcome(UiDir, StaticDirPath("tarko_agent_ui")).kind = "ok"
    /\ response.route = "/api/v1/health"
    /\ response.status_code = "200"

(***************************************************************************)
(* Claims about the release workflow, checked under SpecRelease.           *)
(***************************************************************************)
\* The steps of the inner try block that come before step and that the
\* run's options do not leave out (--skip-tests leaves out the tests).
EarlierSteps(step) ==
    { ReleaseSteps[i] :
        i \in { j \in 1..Len(ReleaseSteps) :
                  /\ \E k \in (j + 1)..Len(ReleaseSteps) : ReleaseSteps[k] = step
                  /\ ~(ReleaseSteps[j] = "tests" /\ release.skip_tests) } }

\* C30: a run that ends after the release branch was created has attempted
\* the checkout of the original branch, whichever step failed or none;
\* publish is reached only when no step failed and every earlier step of
\* the run has returned; and a --dry-run run creates no release branch,
\* leaves the branch checked out, the files, the tags and the remote as
\* they were, and publishes nothing.
C30_ReleaseSwitchesBack ==
    /\ [](release.pc = "done" /\ release.release_branch => release.checkout_back)
    /\ [](release.pc = "publish" =>
            /\ release.failed = ""
            /\ EarlierSteps("publish") \subseteq release.completed
            /\ {"clean", "update_versions", "build_assets", "package",
                "commit_and_tag", "push"} \subseteq release.completed)
    /\ [](release.dry_run =>
            /\ ~release.release_branch
            /\ release.branch = "original"
            /\ ~release.worktree
            /\ ~release.tag
            /\ ~release.pushed
            /\ ~release.published
            /\ release.completed = {})
    /\ [][ release.dry_run \/ release'.dry_run =>
             UNCHANGED <<static_dirs, static_version, build>> ]_vars

\* Reached: the tests failed on the release branch, and the run ended with
\* status 1 after checking out the original branch again.
C30_Witness ==
    /\ release.pc = "done"
    /\ release.release_branch
    /\ release.failed = "tests"
    /\ release.checkout_back
    /\ release.branch = "original"
    /\ release.exit = "1"

=============================================================================
